---- MODULE Spec2Model ----
(***************************************************************************)
(* Narrative Nexus topic-modelling core: SimpleLDA (collapsed Gibbs        *)
(* sampling) and SimpleNMF, as written in                                  *)
(* backend/advanced_topic_modeling.py, with the update_matrices variant of *)
(* SimpleNMF kept in backend/app_minimal_corrupted_backup.py.              *)
(*                                                                         *)
(* Representation.  A Python str is a sequence of one-character strings.   *)
(* A Python list is a TLA+ sequence; Python index i is TLA+ index i+1.     *)
(* Exact quotients are rationals <<n, d>>; the NMF matrices, which are     *)
(* iterated floats, are fixed-point integers in units of 1/Scale.          *)
(***************************************************************************)
EXTENDS Integers, Sequences, FiniteSets, TLC

VARIABLES
    documents,        \* the corpus handed to fit(documents)
    algorithm,        \* "lda" or "nmf": the model class that is trained
    impl,             \* "advanced" (advanced_topic_modeling.py) or "backup" (app_minimal_corrupted_backup.py)
    seed,             \* value last given to random.seed, or Unseeded
    rng,              \* state of the module-level generator `random`
    pc,               \* position inside fit / after fit
    lda,              \* the SimpleLDA instance
    nmf,              \* the SimpleNMF instance
    processed_docs,   \* fit's local: documents as word-id lists
    doc_assignments,  \* initialize_assignments' local
    iteration,        \* loop variable of fit
    doc_id,           \* loop variable of the document loops
    word_pos,         \* loop variable of the token loops
    run,              \* number of fit calls started on the instance
    first_run,        \* the instance as it was when the first fit returned
    result,           \* what the last query call returned
    engine,           \* the perform_topic_modeling call in progress: its arguments, locals and outcome
    waiting           \* the fit call of a second thread that is not running: its instance and locals

vars == <<documents, algorithm, impl, seed, rng, pc, lda, nmf, processed_docs,
          doc_assignments, iteration, doc_id, word_pos, run, first_run, result, engine,
          waiting>>

(***************************************************************************)
(* Bounds of the exploration.                                              *)
(***************************************************************************)
MaxDocs == 2
MaxTopics == 2
MaxIterations == 2
RngMod == 8

(***************************************************************************)
(* Python values.                                                          *)
(***************************************************************************)
None == "None"

Range(n) == 0 .. (n - 1)

RECURSIVE SumSeq(_)
SumSeq(s) == IF s = <<>> THEN 0 ELSE Head(s) + SumSeq(Tail(s))

RECURSIVE Flatten(_)
Flatten(ss) == IF ss = <<>> THEN <<>> ELSE Head(ss) \o Flatten(Tail(ss))

Count(s, x) == Cardinality({i \in DOMAIN s : s[i] = x})

\* [v] * n
Repeat(v, n) == [i \in 1 .. n |-> v]

\* a list built by a comprehension, as one value
List(f) == f \o <<>>

\* F of the value of v: the right-hand side of an assignment is computed once
With(v, F(_)) == CHOOSE y \in {F(x) : x \in {v}} : TRUE

\* str.lower(), per character
UpperCase == <<"A","B","C","D","E","F","G","H","I","J","K","L","M",
               "N","O","P","Q","R","S","T","U","V","W","X","Y","Z">>

LowerCase == <<"a","b","c","d","e","f","g","h","i","j","k","l","m",
               "n","o","p","q","r","s","t","u","v","w","x","y","z">>

LowerChar(c) ==
    IF \E i \in DOMAIN UpperCase : UpperCase[i] = c
    THEN LowerCase[CHOOSE i \in DOMAIN UpperCase : UpperCase[i] = c]
    ELSE c

Lower(str) == [i \in DOMAIN str |-> LowerChar(str[i])]

Whitespace == {" ", "\t", "\n"}

\* The elements of a finite set of integers in increasing order
Ascending(S) ==
    With(S, LAMBDA T :
        List([k \in 1 .. Cardinality(T) |->
                 CHOOSE i \in T : Cardinality({j \in T : j < i}) = k - 1]))

\* the maximal run of characters outside seps that starts at str[i]
SplitFrom(str, i, seps) ==
    LET stop == CHOOSE j \in i .. Len(str) :
                    /\ \A k \in i .. j : str[k] \notin seps
                    /\ j = Len(str) \/ str[j + 1] \in seps
    IN SubSeq(str, i, stop)

\* the maximal runs of characters outside seps, in order
SplitOn(str, seps) ==
    With(List(str), LAMBDA s :
    With(Ascending({i \in DOMAIN s : s[i] \notin seps /\ (i = 1 \/ s[i - 1] \in seps)}),
         LAMBDA order : List([k \in DOMAIN order |-> SplitFrom(s, order[k], seps)])))

\* str.split()
Split(str) == SplitOn(str, Whitespace)

\* the set of the elements of a list
Elements(list) == {list[i] : i \in DOMAIN list}

\* `word in text` for two str values: substring containment
Contains(text, word) ==
    \E i \in 1 .. (Len(text) - Len(word) + 1) :
        \A k \in DOMAIN word : text[i + k - 1] = word[k]

\* Keys of a Counter in iteration order: first appearance
FirstSeen(words) ==
    With(words, LAMBDA w :
    With(Ascending({i \in DOMAIN w : \A j \in 1 .. (i - 1) : w[j] # w[i]}), LAMBDA order :
        List([k \in DOMAIN order |-> w[order[k]]])))

\* word -> i and i -> word for enumerate(vocabulary)
WordToId(vocabulary) ==
    [w \in {vocabulary[i] : i \in DOMAIN vocabulary} |->
        (CHOOSE i \in DOMAIN vocabulary : vocabulary[i] = w) - 1]

IdToWord(vocabulary) == [i \in Range(Len(vocabulary)) |-> vocabulary[i + 1]]

(***************************************************************************)
(* The documents the corpora are made of.                                  *)
(*   DocCatDog   "cat dog"                                                 *)
(*   DocCats     "Cats cats to"  upper case, a repeated word, a short      *)
(*                               token, and "cat" as a substring only      *)
(*   DocShort    "a to"          nothing survives the length filter        *)
(***************************************************************************)
DocCatDog == <<"c","a","t"," ","d","o","g">>

DocCats == <<"C","a","t","s"," ","c","a","t","s"," ","t","o">>

DocShort == <<"a"," ","t","o">>

DocPool == {DocCatDog, DocCats, DocShort}

RECURSIVE SeqsUpTo(_, _)
SeqsUpTo(S, n) ==
    IF n = 0 THEN {<<>>}
    ELSE LET shorter == SeqsUpTo(S, n - 1)
         IN shorter \cup {Append(s, x) : s \in {t \in shorter : Len(t) = n - 1}, x \in S}

Corpora == {c \in SeqsUpTo(DocPool, MaxDocs) : Len(c) >= 1}

(***************************************************************************)
(* The module-level generator `random`.  A seeded generator is in a state  *)
(* of RngStates and every draw advances it; a generator that was never     *)
(* seeded by the program (seeded from OS entropy) can return any value at  *)
(* every draw.                                                             *)
(***************************************************************************)
Unseeded == 0 - 1

RngStates == 0 .. (RngMod - 1)

NextRng(s) == (5 * s + 3) % RngMod

DrawStates(g) == IF g = Unseeded THEN RngStates ELSE {g}

Advance(g, r) == IF g = Unseeded THEN Unseeded ELSE NextRng(r)

\* random.randint(a, b): an integer in a..b
RandInt(r, a, b) == a + (r % (b - a + 1))

\* One unit of a float is 1/Scale.
Scale == 100

\* random.random(): a float in [0, 1), in units of 1/Scale
Random(r) == ((r \div 2) % 4) * (Scale \div 4)

(***************************************************************************)
(* Rationals <<n, d>>, kept in lowest terms with d > 0.  A quotient whose  *)
(* divisor is zero is ZeroDivisionError.                                   *)
(***************************************************************************)
Abs(x) == IF x < 0 THEN 0 - x ELSE x

RECURSIVE GCD(_, _)
GCD(a, b) == IF b = 0 THEN a ELSE GCD(b, a % b)

Rat(n, d) ==
    LET g == GCD(Abs(n), Abs(d))
        sgn == IF d < 0 THEN 0 - 1 ELSE 1
    IN <<sgn * (n \div g), sgn * (d \div g)>>

RatOf(n) == <<n, 1>>

RatAdd(a, b) == Rat(a[1] * b[2] + b[1] * a[2], a[2] * b[2])

RatMul(a, b) == Rat(a[1] * b[1], a[2] * b[2])

RatDiv(a, b) == Rat(a[1] * b[2], a[2] * b[1])

RatLess(a, b) == a[1] * b[2] < b[1] * a[2]

RatIsZero(a) == a[1] = 0

RECURSIVE RatSum(_)
RatSum(s) == IF s = <<>> THEN RatOf(0) ELSE RatAdd(Head(s), RatSum(Tail(s)))

ZeroDivisionError == "ZeroDivisionError"

IndexError == "IndexError"

(***************************************************************************)
(* list.sort(key=lambda x: x[1], reverse=True) on (word, score) pairs:     *)
(* descending by score, equal scores keep their order (the sort is         *)
(* stable).  keys[i] is the score of pairs[i] as a rational.               *)
(***************************************************************************)
\* InsertDesc placing an element before the elements of equal score
RECURSIVE InsertDesc_before_equal(_, _, _)
InsertDesc_before_equal(order, i, keys) ==
    IF order = <<>> THEN <<i>>
    ELSE IF ~RatLess(keys[i], keys[Head(order)])
         THEN <<i>> \o order
         ELSE <<Head(order)>> \o InsertDesc_before_equal(Tail(order), i, keys)

RECURSIVE InsertDesc(_, _, _)
InsertDesc(order, i, keys) ==
    IF order = <<>> THEN <<i>>
    ELSE IF RatLess(keys[Head(order)], keys[i])
         THEN <<i>> \o order
         ELSE <<Head(order)>> \o InsertDesc(Tail(order), i, keys)

RECURSIVE SortOrder(_, _, _)
SortOrder(i, order, keys) ==
    IF i > Len(keys) THEN order
    ELSE SortOrder(i + 1, InsertDesc(order, i, keys), keys)

SortDesc(pairs, keys) ==
    LET order == SortOrder(1, <<>>, keys)
    IN [i \in DOMAIN pairs |-> pairs[order[i]]]

\* list[:n] for n >= 0
Take(list, n) == SubSeq(list, 1, IF n < Len(list) THEN n ELSE Len(list))

\* The position list[i] reads: negative i counts from the end; 0 when out of range
PyIndex(list, i) ==
    IF i >= 0 /\ i < Len(list) THEN i + 1
    ELSE IF i < 0 /\ i + Len(list) >= 0 THEN i + Len(list) + 1
    ELSE 0

(***************************************************************************)
(* SimpleLDA                                                               *)
(***************************************************************************)
Alphas == {<<1, 2>>}

Betas == {<<1, 2>>}

\* SimpleLDA.__init__
LDA_init(num_topics, alpha, beta, num_iterations) ==
    [num_topics |-> num_topics, alpha |-> alpha, beta |-> beta,
     num_iterations |-> num_iterations,
     vocabulary |-> None, word_to_id |-> None, id_to_word |-> None,
     doc_topic_counts |-> None, topic_word_counts |-> None,
     topic_counts |-> None, doc_lengths |-> None, topic_assignments |-> None]

\* build_vocabulary with a corpus of exactly 100 tokens still counted as short
LDA_build_vocabulary_short_up_to_100(docs) ==
    LET words == Flatten([d \in DOMAIN docs |-> Split(Lower(docs[d]))])
        keys == FirstSeen(words)
        total_words == Len(words)
        min_freq == IF total_words <= 100 THEN 1 ELSE 2
        Keep(word) == Count(words, word) >= min_freq /\ Len(word) > 2
    IN SelectSeq(keys, Keep)

\* SimpleLDA.build_vocabulary: the vocabulary list
LDA_build_vocabulary(docs) ==
    LET words == Flatten([d \in DOMAIN docs |-> Split(Lower(docs[d]))])
        keys == FirstSeen(words)
        total_words == Len(words)
        min_freq == IF total_words < 100 THEN 1 ELSE 2
        Keep(word) == Count(words, word) >= min_freq /\ Len(word) > 2
    IN SelectSeq(keys, Keep)

\* SimpleLDA.preprocess_documents
LDA_preprocess_documents(word_to_id, docs) ==
    [d \in DOMAIN docs |->
        LET words == Split(Lower(docs[d]))
            InVocabulary(word) == word \in DOMAIN word_to_id
            kept == SelectSeq(words, InVocabulary)
        IN [i \in DOMAIN kept |-> word_to_id[kept[i]]]]

\* LDAFitStart with topic_counts zeroed by the first fit of the instance only
LDAFitStart_keeps_topic_counts ==
    /\ pc = "new"
    /\ algorithm = "lda"
    /\ LET vocabulary == LDA_build_vocabulary(documents)
           word_to_id == WordToId(vocabulary)
           docs == LDA_preprocess_documents(word_to_id, documents)
           num_docs == Len(docs)
           vocab_size == Len(vocabulary)
       IN /\ processed_docs' = docs
          /\ lda' = [lda EXCEPT
                 !.vocabulary = vocabulary,
                 !.word_to_id = word_to_id,
                 !.id_to_word = IdToWord(vocabulary),
                 !.doc_topic_counts = Repeat(Repeat(0, lda.num_topics), num_docs),
                 !.topic_word_counts = Repeat(Repeat(0, vocab_size), lda.num_topics),
                 !.topic_counts = IF run = 0 THEN Repeat(0, lda.num_topics) ELSE @,
                 !.doc_lengths = [d \in DOMAIN docs |-> Len(docs[d])],
                 !.topic_assignments = <<>>]
    /\ pc' = "init"
    /\ doc_id' = 0
    /\ word_pos' = 0
    /\ doc_assignments' = <<>>
    /\ run' = run + 1
    /\ UNCHANGED <<engine, waiting, documents, algorithm, impl, seed, rng, nmf, iteration, first_run, result>>

\* fit up to the first random draw: build_vocabulary, preprocess_documents and
\* the count tables of initialize_assignments
LDAFitStart ==
    /\ pc = "new"
    /\ algorithm = "lda"
    /\ LET vocabulary == LDA_build_vocabulary(documents)
           word_to_id == WordToId(vocabulary)
           docs == LDA_preprocess_documents(word_to_id, documents)
           num_docs == Len(docs)
           vocab_size == Len(vocabulary)
       IN /\ processed_docs' = docs
          /\ lda' = [lda EXCEPT
                 !.vocabulary = vocabulary,
                 !.word_to_id = word_to_id,
                 !.id_to_word = IdToWord(vocabulary),
                 !.doc_topic_counts = Repeat(Repeat(0, lda.num_topics), num_docs),
                 !.topic_word_counts = Repeat(Repeat(0, vocab_size), lda.num_topics),
                 !.topic_counts = Repeat(0, lda.num_topics),
                 !.doc_lengths = [d \in DOMAIN docs |-> Len(docs[d])],
                 !.topic_assignments = <<>>]
    /\ pc' = "init"
    /\ doc_id' = 0
    /\ word_pos' = 0
    /\ doc_assignments' = <<>>
    /\ run' = run + 1
    /\ UNCHANGED <<engine, waiting, documents, algorithm, impl, seed, rng, nmf, iteration, first_run, result>>

\* LDA_count with the removal leaving doc_topic_counts alone
LDA_count_keeps_doc_count(m, d, word_id, topic, delta) ==
    [m EXCEPT !.doc_topic_counts[d + 1][topic + 1] = IF delta > 0 THEN @ + delta ELSE @,
              !.topic_word_counts[topic + 1][word_id + 1] = @ + delta,
              !.topic_counts[topic + 1] = @ + delta]

\* LDA_count with the removal leaving topic_counts alone
LDA_count_keeps_topic_count(m, d, word_id, topic, delta) ==
    [m EXCEPT !.doc_topic_counts[d + 1][topic + 1] = @ + delta,
              !.topic_word_counts[topic + 1][word_id + 1] = @ + delta,
              !.topic_counts[topic + 1] = IF delta > 0 THEN @ + delta ELSE @]

\* LDA_count with the removal leaving topic_word_counts alone
LDA_count_keeps_word_count(m, d, word_id, topic, delta) ==
    [m EXCEPT !.doc_topic_counts[d + 1][topic + 1] = @ + delta,
              !.topic_word_counts[topic + 1][word_id + 1] = IF delta > 0 THEN @ + delta ELSE @,
              !.topic_counts[topic + 1] = @ + delta]

\* LDA_count with the assignment leaving doc_topic_counts alone
LDA_count_drops_doc_count(m, d, word_id, topic, delta) ==
    [m EXCEPT !.doc_topic_counts[d + 1][topic + 1] = IF delta < 0 THEN @ + delta ELSE @,
              !.topic_word_counts[topic + 1][word_id + 1] = @ + delta,
              !.topic_counts[topic + 1] = @ + delta]

\* The three count updates of one assignment (+1) or removal (-1)
LDA_count(m, d, word_id, topic, delta) ==
    [m EXCEPT !.doc_topic_counts[d + 1][topic + 1] = @ + delta,
              !.topic_word_counts[topic + 1][word_id + 1] = @ + delta,
              !.topic_counts[topic + 1] = @ + delta]

\* initialize_assignments, inner loop body: one token gets a random topic
InitAssignToken ==
    /\ pc = "init"
    /\ doc_id < Len(processed_docs)
    /\ word_pos < Len(processed_docs[doc_id + 1])
    /\ \E r \in DrawStates(rng) :
          LET word_id == processed_docs[doc_id + 1][word_pos + 1]
              topic == RandInt(r, 0, lda.num_topics - 1)
          IN /\ doc_assignments' = Append(doc_assignments, topic)
             /\ lda' = LDA_count(lda, doc_id, word_id, topic, 1)
             /\ rng' = Advance(rng, r)
    /\ word_pos' = word_pos + 1
    /\ UNCHANGED <<engine, waiting, documents, algorithm, impl, seed, pc, nmf, processed_docs,
                   iteration, doc_id, run, first_run, result>>

\* initialize_assignments, end of a document: its assignments are appended
InitEndDoc ==
    /\ pc = "init"
    /\ doc_id < Len(processed_docs)
    /\ word_pos = Len(processed_docs[doc_id + 1])
    /\ lda' = [lda EXCEPT !.topic_assignments = Append(@, doc_assignments)]
    /\ doc_assignments' = <<>>
    /\ doc_id' = doc_id + 1
    /\ word_pos' = 0
    /\ UNCHANGED <<engine, waiting, documents, algorithm, impl, seed, rng, pc, nmf, processed_docs,
                   iteration, run, first_run, result>>

\* initialize_assignments returns; fit enters its sampling loop
InitDone ==
    /\ pc = "init"
    /\ doc_id = Len(processed_docs)
    /\ pc' = "sweep"
    /\ iteration' = 0
    /\ doc_id' = 0
    /\ UNCHANGED <<engine, waiting, documents, algorithm, impl, seed, rng, lda, nmf, processed_docs,
                   doc_assignments, word_pos, run, first_run, result>>

\* SweepBegin with one sweep more than num_iterations
SweepBegin_one_more ==
    /\ pc = "sweep"
    /\ algorithm = "lda"
    /\ IF iteration <= lda.num_iterations
       THEN /\ pc' = "scan"
            /\ doc_id' = 0
            /\ word_pos' = 0
       ELSE /\ pc' = "done"
            /\ UNCHANGED <<doc_id, word_pos>>
    /\ UNCHANGED <<engine, waiting, documents, algorithm, impl, seed, rng, lda, nmf, processed_docs,
                   doc_assignments, iteration, run, first_run, result>>

\* for iteration in range(num_iterations): the next sweep starts, or fit returns
SweepBegin ==
    /\ pc = "sweep"
    /\ algorithm = "lda"
    /\ IF iteration < lda.num_iterations
       THEN /\ pc' = "scan"
            /\ doc_id' = 0
            /\ word_pos' = 0
       ELSE /\ pc' = "done"
            /\ UNCHANGED <<doc_id, word_pos>>
    /\ UNCHANGED <<engine, waiting, documents, algorithm, impl, seed, rng, lda, nmf, processed_docs,
                   doc_assignments, iteration, run, first_run, result>>

\* for doc_id, doc in enumerate(processed_docs): the tokens of doc are exhausted
SweepNextDoc ==
    /\ pc = "scan"
    /\ doc_id < Len(processed_docs)
    /\ word_pos = Len(processed_docs[doc_id + 1])
    /\ doc_id' = doc_id + 1
    /\ word_pos' = 0
    /\ UNCHANGED <<engine, waiting, documents, algorithm, impl, seed, rng, pc, lda, nmf, processed_docs,
                   doc_assignments, iteration, run, first_run, result>>

\* the documents are exhausted: the sweep is complete
SweepEnd ==
    /\ pc = "scan"
    /\ doc_id = Len(processed_docs)
    /\ iteration' = iteration + 1
    /\ pc' = "sweep"
    /\ doc_id' = 0
    /\ UNCHANGED <<engine, waiting, documents, algorithm, impl, seed, rng, lda, nmf, processed_docs,
                   doc_assignments, word_pos, run, first_run, result>>

\* SampleRemove with the probabilities computed before the removal
SampleRemove_keeps_counts ==
    /\ pc = "scan"
    /\ doc_id < Len(processed_docs)
    /\ word_pos < Len(processed_docs[doc_id + 1])
    /\ pc' = "resample"
    /\ UNCHANGED <<engine, waiting, documents, algorithm, impl, seed, rng, lda, nmf, processed_docs,
                   doc_assignments, iteration, doc_id, word_pos, run, first_run, result>>

\* sample_topic, "Remove current assignment"
SampleRemove ==
    /\ pc = "scan"
    /\ doc_id < Len(processed_docs)
    /\ word_pos < Len(processed_docs[doc_id + 1])
    /\ LET word_id == processed_docs[doc_id + 1][word_pos + 1]
           old_topic == lda.topic_assignments[doc_id + 1][word_pos + 1]
       IN lda' = LDA_count(lda, doc_id, word_id, old_topic, 0 - 1)
    /\ pc' = "resample"
    /\ UNCHANGED <<engine, waiting, documents, algorithm, impl, seed, rng, nmf, processed_docs,
                   doc_assignments, iteration, doc_id, word_pos, run, first_run, result>>

\* The divisors of sample_topic's two quotients for one topic
LDA_doc_divisor(m, d) ==
    RatAdd(RatOf(m.doc_lengths[d + 1] - 1), RatMul(RatOf(m.num_topics), m.alpha))

LDA_word_divisor(m, topic) ==
    RatAdd(RatOf(m.topic_counts[topic + 1]), RatMul(RatOf(Len(m.vocabulary)), m.beta))

\* LDA_probability without the smoothing terms in the numerators
LDA_probability_unsmoothed(m, d, word_id, topic) ==
    RatMul(RatDiv(RatOf(m.doc_topic_counts[d + 1][topic + 1]), LDA_doc_divisor(m, d)),
           RatDiv(RatOf(m.topic_word_counts[topic + 1][word_id + 1]),
                  LDA_word_divisor(m, topic)))

\* sample_topic: probabilities[topic] = P(topic|doc) * P(word|topic)
LDA_probability(m, d, word_id, topic) ==
    LET doc_topic_prob ==
            RatDiv(RatAdd(RatOf(m.doc_topic_counts[d + 1][topic + 1]), m.alpha),
                   LDA_doc_divisor(m, d))
        topic_word_prob ==
            RatDiv(RatAdd(RatOf(m.topic_word_counts[topic + 1][word_id + 1]), m.beta),
                   LDA_word_divisor(m, topic))
    IN RatMul(doc_topic_prob, topic_word_prob)

LDA_probabilities(m, d, word_id) ==
    [t \in 1 .. m.num_topics |-> LDA_probability(m, d, word_id, t - 1)]

\* sample_topic raises when a divisor is zero
LDA_sample_raises(m, d) ==
    \/ RatIsZero(LDA_doc_divisor(m, d))
    \/ \E topic \in Range(m.num_topics) : RatIsZero(LDA_word_divisor(m, topic))

\* cumsum after the first i normalized probabilities
LDA_cumsum(probabilities, total_prob, i) ==
    RatSum([j \in 1 .. i |-> RatDiv(probabilities[j], total_prob)])

\* cumulative after the first i unnormalized probabilities (app_minimal.py)
LDABackup_cumulative(probabilities, i) ==
    RatSum([j \in 1 .. i |-> probabilities[j]])

\* "if rand_val < cumsum" over the normalized probabilities
LDA_hits(probabilities, total_prob, r) ==
    {i \in DOMAIN probabilities :
        RatLess(Rat(Random(r), Scale), LDA_cumsum(probabilities, total_prob, i))}

\* app_minimal.py: rand_val = random.random() * total_prob and
\* "if rand_val <= cumulative" over the unnormalized probabilities
LDABackup_hits(probabilities, total_prob, r) ==
    {i \in DOMAIN probabilities :
        ~RatLess(LDABackup_cumulative(probabilities, i),
                 RatMul(Rat(Random(r), Scale), total_prob))}

\* sample_topic, "Sample new topic" for the draw of generator state r
LDA_new_topic(m, probabilities, r) ==
    LET total_prob == RatSum(probabilities)
    IN IF RatIsZero(total_prob)
       THEN RandInt(r, 0, m.num_topics - 1)
       ELSE LET hits == IF impl = "backup"
                        THEN LDABackup_hits(probabilities, total_prob, r)
                        ELSE LDA_hits(probabilities, total_prob, r)
            IN IF hits = {} THEN 0
               ELSE (CHOOSE i \in hits : \A j \in hits : i <= j) - 1

\* SampleDraw with fit discarding the topic that sample_topic returns
SampleDraw_discards_new_topic ==
    /\ pc = "resample"
    /\ LET word_id == processed_docs[doc_id + 1][word_pos + 1]
       IN \E r \in DrawStates(rng) :
             LET new_topic == LDA_new_topic(lda, LDA_probabilities(lda, doc_id, word_id), r)
             IN /\ lda' = LDA_count(lda, doc_id, word_id, new_topic, 1)
                /\ rng' = Advance(rng, r)
    /\ pc' = "scan"
    /\ word_pos' = word_pos + 1
    /\ UNCHANGED <<engine, waiting, documents, algorithm, impl, seed, nmf, processed_docs,
                   doc_assignments, iteration, doc_id, run, first_run, result>>

\* sample_topic after the removal, and fit's store of its return value
SampleDraw ==
    /\ pc = "resample"
    /\ LET word_id == processed_docs[doc_id + 1][word_pos + 1]
       IN IF LDA_sample_raises(lda, doc_id)
          THEN /\ pc' = "raised"
               /\ result' = ZeroDivisionError
               /\ UNCHANGED <<lda, rng, word_pos>>
          ELSE /\ \E r \in DrawStates(rng) :
                     LET new_topic == LDA_new_topic(lda, LDA_probabilities(lda, doc_id, word_id), r)
                         counted == LDA_count(lda, doc_id, word_id, new_topic, 1)
                     IN /\ lda' = [counted EXCEPT
                               !.topic_assignments[doc_id + 1][word_pos + 1] = new_topic]
                        /\ rng' = Advance(rng, r)
               /\ pc' = "scan"
               /\ word_pos' = word_pos + 1
               /\ UNCHANGED result
    /\ UNCHANGED <<engine, waiting, documents, algorithm, impl, seed, nmf, processed_docs,
                   doc_assignments, iteration, doc_id, run, first_run>>

\* get_top_words without the topic_id >= num_topics guard
LDA_get_top_words_unguarded(m, topic_id, num_words) ==
    IF Len(m.vocabulary) = 0 THEN [raised |-> None, value |-> <<>>]
    ELSE IF PyIndex(m.topic_word_counts, topic_id) = 0
         THEN [raised |-> IndexError, value |-> <<>>]
    ELSE LET t == PyIndex(m.topic_word_counts, topic_id)
             divisor == RatAdd(RatOf(m.topic_counts[t]),
                               RatMul(RatOf(Len(m.vocabulary)), m.beta))
             prob(word_id) ==
                 RatDiv(RatAdd(RatOf(m.topic_word_counts[t][word_id + 1]), m.beta), divisor)
             word_probs == [i \in DOMAIN m.vocabulary |-> <<m.id_to_word[i - 1], prob(i - 1)>>]
             keys == [i \in DOMAIN word_probs |-> word_probs[i][2]]
         IN IF RatIsZero(divisor)
            THEN [raised |-> ZeroDivisionError, value |-> <<>>]
            ELSE [raised |-> None, value |-> Take(SortDesc(word_probs, keys), num_words)]

\* SimpleLDA.get_top_words: the returned list, or the exception raised
LDA_get_top_words(m, topic_id, num_words) ==
    IF topic_id >= m.num_topics THEN [raised |-> None, value |-> <<>>]
    ELSE IF Len(m.vocabulary) = 0 THEN [raised |-> None, value |-> <<>>]
    ELSE IF PyIndex(m.topic_word_counts, topic_id) = 0
         THEN [raised |-> IndexError, value |-> <<>>]
    ELSE LET t == PyIndex(m.topic_word_counts, topic_id)
             divisor == RatAdd(RatOf(m.topic_counts[t]),
                               RatMul(RatOf(Len(m.vocabulary)), m.beta))
             prob(word_id) ==
                 RatDiv(RatAdd(RatOf(m.topic_word_counts[t][word_id + 1]), m.beta), divisor)
             word_probs == [i \in DOMAIN m.vocabulary |-> <<m.id_to_word[i - 1], prob(i - 1)>>]
             keys == [i \in DOMAIN word_probs |-> word_probs[i][2]]
         IN IF RatIsZero(divisor)
            THEN [raised |-> ZeroDivisionError, value |-> <<>>]
            ELSE [raised |-> None, value |-> Take(SortDesc(word_probs, keys), num_words)]

\* get_document_topics with the divisor of sample_topic (doc_lengths - 1)
LDA_get_document_topics_leave_one_out(m, d) ==
    IF d >= Len(m.doc_topic_counts) THEN [raised |-> None, value |-> <<>>]
    ELSE IF PyIndex(m.doc_topic_counts, d) = 0
         THEN [raised |-> IndexError, value |-> <<>>]
    ELSE LET row == PyIndex(m.doc_topic_counts, d)
             divisor == RatAdd(RatOf(m.doc_lengths[row] - 1),
                               RatMul(RatOf(m.num_topics), m.alpha))
             prob(topic) ==
                 RatDiv(RatAdd(RatOf(m.doc_topic_counts[row][topic + 1]), m.alpha), divisor)
         IN IF RatIsZero(divisor)
            THEN [raised |-> ZeroDivisionError, value |-> <<>>]
            ELSE [raised |-> None, value |-> [t \in 1 .. m.num_topics |-> prob(t - 1)]]

\* SimpleLDA.get_document_topics: the returned list, or the exception raised
LDA_get_document_topics(m, d) ==
    IF d >= Len(m.doc_topic_counts) THEN [raised |-> None, value |-> <<>>]
    ELSE IF PyIndex(m.doc_topic_counts, d) = 0
         THEN [raised |-> IndexError, value |-> <<>>]
    ELSE LET row == PyIndex(m.doc_topic_counts, d)
             divisor == RatAdd(RatOf(m.doc_lengths[row]),
                               RatMul(RatOf(m.num_topics), m.alpha))
             prob(topic) ==
                 RatDiv(RatAdd(RatOf(m.doc_topic_counts[row][topic + 1]), m.alpha), divisor)
         IN IF RatIsZero(divisor)
            THEN [raised |-> ZeroDivisionError, value |-> <<>>]
            ELSE [raised |-> None, value |-> [t \in 1 .. m.num_topics |-> prob(t - 1)]]

\* The ids and list lengths the query calls are made with
TopicIds(num_topics) == (0 - 1) .. num_topics

DocIds == (0 - 1) .. Len(documents)

NumWords == {1, 2, 10}

\* a caller asks the trained SimpleLDA for the top words of a topic
LDAGetTopWords ==
    /\ pc = "done"
    /\ algorithm = "lda"
    /\ \E topic_id \in TopicIds(lda.num_topics), num_words \in NumWords :
          result' = [call |-> "get_top_words", id |-> topic_id, num_words |-> num_words,
                     ret |-> LDA_get_top_words(lda, topic_id, num_words)]
    /\ UNCHANGED <<engine, waiting, documents, algorithm, impl, seed, rng, pc, lda, nmf, processed_docs,
                   doc_assignments, iteration, doc_id, word_pos, run, first_run>>

\* a caller asks the trained SimpleLDA for the topic distribution of a document
LDAGetDocumentTopics ==
    /\ pc = "done"
    /\ algorithm = "lda"
    /\ \E d \in DocIds :
          result' = [call |-> "get_document_topics", id |-> d, num_words |-> 0,
                     ret |-> LDA_get_document_topics(lda, d)]
    /\ UNCHANGED <<engine, waiting, documents, algorithm, impl, seed, rng, pc, lda, nmf, processed_docs,
                   doc_assignments, iteration, doc_id, word_pos, run, first_run>>

(***************************************************************************)
(* Floats of SimpleNMF, in units of 1/Scale.  A product or quotient that   *)
(* is not a whole number of units is rounded towards zero.                 *)
(***************************************************************************)
TruncDiv(n, d) == IF n >= 0 THEN n \div d ELSE 0 - ((0 - n) \div d)

FxMul(a, b) == TruncDiv(a * b, Scale)

\* a / b for b > 0
FxDiv(a, b) == TruncDiv(a * Scale, b)

\* 1000 * ln(k), rounded, for the k that num_docs and doc_freq + 1 can be
LnMilli(k) ==
    CASE k = 1 -> 0
      [] k = 2 -> 693
      [] k = 3 -> 1099
      [] k = 4 -> 1386
      [] k = 5 -> 1609
      [] k = 6 -> 1792
      [] k = 7 -> 1946
      [] k = 8 -> 2079

\* math.log(n / d) = ln n - ln d
Log(n, d) == TruncDiv((LnMilli(n) - LnMilli(d)) * Scale, 1000)

(***************************************************************************)
(* SimpleNMF                                                               *)
(***************************************************************************)
\* SimpleNMF.__init__
NMF_init(num_topics, num_iterations) ==
    [num_topics |-> num_topics, num_iterations |-> num_iterations,
     learning_rate |-> Scale \div 100,
     vocabulary |-> None, word_to_id |-> None, id_to_word |-> None,
     W |-> None, H |-> None, document_term_matrix |-> None]

\* NMF_build_vocabulary without the length filter
NMF_build_vocabulary_any_length(docs) ==
    LET words == Flatten([d \in DOMAIN docs |-> Split(Lower(docs[d]))])
        keys == FirstSeen(words)
        Keep(word) == Count(words, word) >= 1
    IN SelectSeq(keys, Keep)

\* SimpleNMF.build_vocabulary of advanced_topic_modeling.py
NMF_build_vocabulary(docs) ==
    LET words == Flatten([d \in DOMAIN docs |-> Split(Lower(docs[d]))])
        keys == FirstSeen(words)
        Keep(word) == Count(words, word) >= 1 /\ Len(word) > 2
    IN SelectSeq(keys, Keep)

\* SimpleNMF.build_vocabulary of app_minimal_corrupted_backup.py
NMFBackup_build_vocabulary(docs) ==
    LET words == Flatten([d \in DOMAIN docs |-> Split(Lower(docs[d]))])
        keys == FirstSeen(words)
        Keep(word) == Count(words, word) >= 2
    IN SelectSeq(keys, Keep)

\* SimpleNMF.build_document_term_matrix (the same in both files)
NMF_build_document_term_matrix(vocabulary, docs) ==
    LET num_docs == Len(docs)
        doc_freq(word) == Cardinality({d \in DOMAIN docs : Contains(Lower(docs[d]), word)})
        idf(word) == Log(num_docs, doc_freq(word) + 1)
    IN [d \in DOMAIN docs |->
          LET words == Split(Lower(docs[d]))
          IN [w \in DOMAIN vocabulary |->
                LET count == Count(words, vocabulary[w])
                    tf == FxDiv(count * Scale, Len(words) * Scale)
                IN IF count = 0 THEN 0 ELSE FxMul(tf, idf(vocabulary[w]))]]

\* The generator state after n draws from state g
RECURSIVE RngAfter(_, _)
RngAfter(g, n) == IF n = 0 THEN g ELSE RngAfter(NextRng(g), n - 1)

\* SimpleNMF.initialize_matrices: W row by row, then H row by row, one
\* random.random() per entry, drawn from the seeded generator state g
NMF_initialize_W(g, num_docs, num_topics) ==
    [d \in 1 .. num_docs |-> [t \in 1 .. num_topics |->
        Random(RngAfter(g, (d - 1) * num_topics + (t - 1)))]]

NMF_initialize_H(g, num_docs, num_topics, vocab_size) ==
    [t \in 1 .. num_topics |-> [w \in 1 .. vocab_size |->
        Random(RngAfter(g, num_docs * num_topics + (t - 1) * vocab_size + (w - 1)))]]

\* SimpleNMF.matrix_multiply for A with at least one row: B has cols columns
NMF_matrix_multiply(A, B, cols) ==
    [i \in DOMAIN A |-> [j \in 1 .. cols |->
        SumSeq([k \in DOMAIN B |-> FxMul(A[i][k], B[k][j])])]]

\* update_matrices, "Update H matrix"
NMF_update_H(W, H, X, vocab_size) ==
    LET WH == NMF_matrix_multiply(W, H, vocab_size)
    IN [i \in DOMAIN H |-> [j \in 1 .. vocab_size |->
          LET used == {d \in DOMAIN W : WH[d][j] > 0}
              numerator == SumSeq([d \in DOMAIN W |->
                               IF d \in used THEN FxMul(W[d][i], X[d][j]) ELSE 0])
              denominator == SumSeq([d \in DOMAIN W |->
                               IF d \in used THEN FxMul(W[d][i], WH[d][j]) ELSE 0])
          IN IF denominator > 0
             THEN FxMul(H[i][j], FxDiv(numerator, denominator))
             ELSE H[i][j]]]

\* update_matrices, "Update W matrix"
NMF_update_W(W, H, X, vocab_size) ==
    LET WH == NMF_matrix_multiply(W, H, vocab_size)
    IN [i \in DOMAIN W |-> [j \in DOMAIN H |->
          LET used == {v \in 1 .. vocab_size : WH[i][v] > 0}
              numerator == SumSeq([v \in 1 .. vocab_size |->
                               IF v \in used THEN FxMul(H[j][v], X[i][v]) ELSE 0])
              denominator == SumSeq([v \in 1 .. vocab_size |->
                               IF v \in used THEN FxMul(H[j][v], WH[i][v]) ELSE 0])
          IN IF denominator > 0
             THEN FxMul(W[i][j], FxDiv(numerator, denominator))
             ELSE W[i][j]]]

\* SimpleNMF.update_matrices of app_minimal_corrupted_backup.py
NMFBackup_update_matrices(m) ==
    LET vocab_size == Len(m.H[1])
        new_H == NMF_update_H(m.W, m.H, m.document_term_matrix, vocab_size)
        new_W == NMF_update_W(m.W, new_H, m.document_term_matrix, vocab_size)
    IN [m EXCEPT !.H = new_H, !.W = new_W]

\* fit up to its training loop: build_vocabulary, build_document_term_matrix
\* and initialize_matrices
NMFFitStart ==
    /\ pc = "new"
    /\ algorithm = "nmf"
    /\ LET vocabulary == IF impl = "advanced" THEN NMF_build_vocabulary(documents)
                         ELSE NMFBackup_build_vocabulary(documents)
           num_docs == Len(documents)
           vocab_size == Len(vocabulary)
       IN /\ nmf' = [nmf EXCEPT
                 !.vocabulary = vocabulary,
                 !.word_to_id = WordToId(vocabulary),
                 !.id_to_word = IdToWord(vocabulary),
                 !.document_term_matrix = NMF_build_document_term_matrix(vocabulary, documents),
                 !.W = NMF_initialize_W(rng, num_docs, nmf.num_topics),
                 !.H = NMF_initialize_H(rng, num_docs, nmf.num_topics, vocab_size)]
          /\ rng' = RngAfter(rng, num_docs * nmf.num_topics + nmf.num_topics * vocab_size)
    /\ pc' = "nmf_loop"
    /\ iteration' = 0
    /\ run' = run + 1
    /\ UNCHANGED <<engine, waiting, documents, algorithm, impl, seed, lda, processed_docs,
                   doc_assignments, doc_id, word_pos, first_run, result>>

\* one pass of the training loop of advanced_topic_modeling.py: it only logs
NMFIterate ==
    /\ pc = "nmf_loop"
    /\ impl = "advanced"
    /\ iteration < nmf.num_iterations
    /\ iteration' = iteration + 1
    /\ UNCHANGED <<engine, waiting, documents, algorithm, impl, seed, rng, pc, lda, nmf, processed_docs,
                   doc_assignments, doc_id, word_pos, run, first_run, result>>

\* one pass of the training loop of app_minimal_corrupted_backup.py
NMFBackupIterate ==
    /\ pc = "nmf_loop"
    /\ impl = "backup"
    /\ iteration < nmf.num_iterations
    /\ nmf' = NMFBackup_update_matrices(nmf)
    /\ iteration' = iteration + 1
    /\ UNCHANGED <<engine, waiting, documents, algorithm, impl, seed, rng, pc, lda, processed_docs,
                   doc_assignments, doc_id, word_pos, run, first_run, result>>

\* the training loop is exhausted: fit returns
NMFFitReturn ==
    /\ pc = "nmf_loop"
    /\ iteration = nmf.num_iterations
    /\ pc' = "done"
    /\ UNCHANGED <<engine, waiting, documents, algorithm, impl, seed, rng, lda, nmf, processed_docs,
                   doc_assignments, iteration, doc_id, word_pos, run, first_run, result>>

\* word_weights sorted and cut, for the row of H that topic_id reads
NMF_top_words(m, row, num_words) ==
    LET word_weights == [i \in DOMAIN m.vocabulary |-> <<m.id_to_word[i - 1], m.H[row][i]>>]
        keys == [i \in DOMAIN word_weights |-> RatOf(word_weights[i][2])]
    IN Take(SortDesc(word_weights, keys), num_words)

\* SimpleNMF.get_top_words of advanced_topic_modeling.py
NMF_get_top_words(m, topic_id, num_words) ==
    IF topic_id >= m.num_topics \/ Len(m.H) = 0 THEN [raised |-> None, value |-> <<>>]
    ELSE IF Len(m.vocabulary) = 0 THEN [raised |-> None, value |-> <<>>]
    ELSE IF PyIndex(m.H, topic_id) = 0 THEN [raised |-> IndexError, value |-> <<>>]
    ELSE [raised |-> None, value |-> NMF_top_words(m, PyIndex(m.H, topic_id), num_words)]

\* SimpleNMF.get_top_words of app_minimal_corrupted_backup.py
NMFBackup_get_top_words(m, topic_id, num_words) ==
    IF topic_id >= m.num_topics THEN [raised |-> None, value |-> <<>>]
    ELSE IF Len(m.vocabulary) = 0 THEN [raised |-> None, value |-> <<>>]
    ELSE IF PyIndex(m.H, topic_id) = 0 THEN [raised |-> IndexError, value |-> <<>>]
    ELSE [raised |-> None, value |-> NMF_top_words(m, PyIndex(m.H, topic_id), num_words)]

\* [1.0 / num_topics] * num_topics
NMF_uniform(m) == Repeat(Rat(1, m.num_topics), m.num_topics)

\* "Normalize to get probabilities" for the row of W that doc_id reads
NMF_normalize(m, row) ==
    LET total == SumSeq(m.W[row])
    IN IF total = 0 THEN NMF_uniform(m)
       ELSE [t \in DOMAIN m.W[row] |-> Rat(m.W[row][t], total)]

\* SimpleNMF.get_document_topics of advanced_topic_modeling.py
NMF_get_document_topics(m, d) ==
    IF Len(m.W) = 0 \/ d >= Len(m.W) THEN [raised |-> None, value |-> NMF_uniform(m)]
    ELSE IF PyIndex(m.W, d) = 0 THEN [raised |-> IndexError, value |-> <<>>]
    ELSE [raised |-> None, value |-> NMF_normalize(m, PyIndex(m.W, d))]

\* SimpleNMF.get_document_topics of app_minimal_corrupted_backup.py
NMFBackup_get_document_topics(m, d) ==
    IF d >= Len(m.W) THEN [raised |-> None, value |-> <<>>]
    ELSE IF PyIndex(m.W, d) = 0 THEN [raised |-> IndexError, value |-> <<>>]
    ELSE [raised |-> None, value |-> NMF_normalize(m, PyIndex(m.W, d))]

\* a caller asks the trained SimpleNMF for the top words of a topic
NMFGetTopWords ==
    /\ pc = "done"
    /\ algorithm = "nmf"
    /\ \E topic_id \in TopicIds(nmf.num_topics), num_words \in NumWords :
          result' = [call |-> "get_top_words", id |-> topic_id, num_words |-> num_words,
                     ret |-> IF impl = "advanced"
                             THEN NMF_get_top_words(nmf, topic_id, num_words)
                             ELSE NMFBackup_get_top_words(nmf, topic_id, num_words)]
    /\ UNCHANGED <<engine, waiting, documents, algorithm, impl, seed, rng, pc, lda, nmf, processed_docs,
                   doc_assignments, iteration, doc_id, word_pos, run, first_run>>

\* a caller asks the trained SimpleNMF for the topic distribution of a document
NMFGetDocumentTopics ==
    /\ pc = "done"
    /\ algorithm = "nmf"
    /\ \E d \in DocIds :
          result' = [call |-> "get_document_topics", id |-> d, num_words |-> 0,
                     ret |-> IF impl = "advanced"
                             THEN NMF_get_document_topics(nmf, d)
                             ELSE NMFBackup_get_document_topics(nmf, d)]
    /\ UNCHANGED <<engine, waiting, documents, algorithm, impl, seed, rng, pc, lda, nmf, processed_docs,
                   doc_assignments, iteration, doc_id, word_pos, run, first_run>>

(***************************************************************************)
(* Specifications.                                                         *)
(***************************************************************************)
NumTopics == 1 .. MaxTopics

NumIterations == 0 .. MaxIterations

NoResult == [call |-> None, id |-> 0, num_words |-> 0, ret |-> [raised |-> None, value |-> <<>>]]

\* An SimpleLDA has been constructed; fit has not been called.
InitLDA ==
    /\ algorithm = "lda"
    /\ impl = "advanced"
    /\ \E num_topics \in NumTopics, alpha \in Alphas, beta \in Betas,
          num_iterations \in NumIterations :
          lda = LDA_init(num_topics, alpha, beta, num_iterations)
    /\ nmf = None
    /\ seed = Unseeded
    /\ rng = Unseeded

InitCommon ==
    /\ documents \in Corpora
    /\ pc = "new"
    /\ processed_docs = <<>>
    /\ doc_assignments = <<>>
    /\ iteration = 0
    /\ doc_id = 0
    /\ word_pos = 0
    /\ run = 0
    /\ first_run = None
    /\ waiting = None
    /\ result = NoResult
    /\ engine = None

\* A SimpleNMF of either file has been constructed and the generator seeded;
\* fit has not been called.
InitNMF ==
    /\ algorithm = "nmf"
    /\ impl \in {"advanced", "backup"}
    /\ \E num_topics \in NumTopics, num_iterations \in NumIterations :
          nmf = NMF_init(num_topics, num_iterations)
    /\ lda = None
    /\ seed \in RngStates
    /\ rng = seed

Init ==
    /\ InitCommon
    /\ (InitLDA \/ InitNMF)

LDAFit ==
    \/ LDAFitStart
    \/ InitAssignToken
    \/ InitEndDoc
    \/ InitDone
    \/ SweepBegin
    \/ SampleRemove
    \/ SampleDraw
    \/ SweepNextDoc
    \/ SweepEnd

NMFFit ==
    \/ NMFFitStart
    \/ NMFIterate
    \/ NMFBackupIterate
    \/ NMFFitReturn

Next ==
    \/ LDAFit
    \/ LDAGetTopWords
    \/ LDAGetDocumentTopics
    \/ NMFFit
    \/ NMFGetTopWords
    \/ NMFGetDocumentTopics

Spec == Init /\ [][Next]_vars

\* A caller seeds the generator with the seed of the first run again and
\* calls fit a second time with the same documents.
SeedAndFitAgain ==
    /\ pc = "done"
    /\ algorithm = "lda"
    /\ run = 1
    /\ first_run' = lda
    /\ rng' = seed
    /\ pc' = "new"
    /\ UNCHANGED <<engine, waiting, documents, algorithm, impl, seed, lda, nmf, processed_docs,
                   doc_assignments, iteration, doc_id, word_pos, run, result>>

\* A SimpleLDA has been constructed and the generator seeded.
InitSeeded ==
    /\ InitCommon
    /\ algorithm = "lda"
    /\ impl \in {"advanced", "backup"}
    /\ \E num_topics \in NumTopics, alpha \in Alphas, beta \in Betas,
          num_iterations \in NumIterations :
          lda = LDA_init(num_topics, alpha, beta, num_iterations)
    /\ nmf = None
    /\ seed \in RngStates
    /\ rng = seed

NextSeeded ==
    \/ LDAFit
    \/ SeedAndFitAgain

SpecSeeded == InitSeeded /\ [][NextSeeded]_vars

(***************************************************************************)
(* build_vocabulary called on its own, on corpora on both sides of the     *)
(* 100-token threshold of SimpleLDA.                                       *)
(*   DocLong99    "cat cat dog", then "a" 96 times:  99 tokens              *)
(*   DocLong100   "cat cat dog", then "a" 97 times: 100 tokens              *)
(***************************************************************************)
\* n copies of word separated by single blanks
RepeatWord(word, n) ==
    [i \in 1 .. (n * (Len(word) + 1) - 1) |->
        LET k == (i - 1) % (Len(word) + 1)
        IN IF k = Len(word) THEN " " ELSE word[k + 1]]

DocLong99 ==
    <<"c","a","t"," ","c","a","t"," ","d","o","g"," ">> \o RepeatWord(<<"a">>, 96)

DocLong100 ==
    <<"c","a","t"," ","c","a","t"," ","d","o","g"," ">> \o RepeatWord(<<"a">>, 97)

\* the corpora of Corpora, and a long document alone or before a short one
VocabularyCorpora ==
    Corpora \cup {<<long>> : long \in {DocLong99, DocLong100}}
            \cup {<<long, short>> : long \in {DocLong99, DocLong100}, short \in DocPool}

\* SimpleLDA.build_vocabulary
LDABuildVocabulary ==
    /\ pc = "new"
    /\ algorithm = "lda"
    /\ LET vocabulary == LDA_build_vocabulary(documents)
       IN lda' = [lda EXCEPT !.vocabulary = vocabulary,
                             !.word_to_id = WordToId(vocabulary),
                             !.id_to_word = IdToWord(vocabulary)]
    /\ pc' = "vocabulary"
    /\ UNCHANGED <<engine, waiting, documents, algorithm, impl, seed, rng, nmf, processed_docs,
                   doc_assignments, iteration, doc_id, word_pos, run, first_run, result>>

\* SimpleNMF.build_vocabulary
NMFBuildVocabulary ==
    /\ pc = "new"
    /\ algorithm = "nmf"
    /\ LET vocabulary == NMF_build_vocabulary(documents)
       IN nmf' = [nmf EXCEPT !.vocabulary = vocabulary,
                             !.word_to_id = WordToId(vocabulary),
                             !.id_to_word = IdToWord(vocabulary)]
    /\ pc' = "vocabulary"
    /\ UNCHANGED <<engine, waiting, documents, algorithm, impl, seed, rng, lda, processed_docs,
                   doc_assignments, iteration, doc_id, word_pos, run, first_run, result>>

\* A SimpleLDA or a SimpleNMF of advanced_topic_modeling.py has been constructed.
InitVocabulary ==
    /\ documents \in VocabularyCorpora
    /\ algorithm \in {"lda", "nmf"}
    /\ impl = "advanced"
    /\ \E num_topics \in NumTopics, alpha \in Alphas, beta \in Betas :
          /\ lda = IF algorithm = "lda" THEN LDA_init(num_topics, alpha, beta, 0) ELSE None
          /\ nmf = IF algorithm = "nmf" THEN NMF_init(num_topics, 0) ELSE None
    /\ seed = Unseeded
    /\ rng = Unseeded
    /\ pc = "new"
    /\ processed_docs = <<>>
    /\ doc_assignments = <<>>
    /\ iteration = 0
    /\ doc_id = 0
    /\ word_pos = 0
    /\ run = 0
    /\ first_run = None
    /\ waiting = None
    /\ result = NoResult
    /\ engine = None

NextVocabulary ==
    \/ LDABuildVocabulary
    \/ NMFBuildVocabulary

SpecVocabulary == InitVocabulary /\ [][NextVocabulary]_vars

(***************************************************************************)
(* TextPreprocessor of backend/text_preprocessing.py, as the engine calls  *)
(* it.  A text handed to the engine is a Python value: a str, an int or    *)
(* None.  The str values are over the letters, blanks and the punctuation  *)
(* marks . , ! ? : they hold no digit, apostrophe, hyphen, underscore,     *)
(* '@', '#', '<' or '/', so the URL, e-mail, mention, hashtag, number and  *)
(* HTML patterns of clean_text and the contractions of normalize_text      *)
(* match nothing in them.                                                  *)
(***************************************************************************)
Str(chars) == [type |-> "str", str |-> chars, int |-> 0]

IntValue(n) == [type |-> "int", str |-> <<>>, int |-> n]

NoneValue == [type |-> "NoneType", str |-> <<>>, int |-> 0]

TypeError == <<"object of type 'int' has no len()">>

\* ' '.join(words)
RECURSIVE Join(_)
Join(words) ==
    With(words, LAMBDA w :
        IF w = <<>> THEN <<>>
        ELSE IF Len(w) = 1 THEN Head(w)
        ELSE Head(w) \o <<" ">> \o Join(Tail(w)))

\* sep.join(words)
RECURSIVE JoinWith(_, _)
JoinWith(sep, words) ==
    With(words, LAMBDA w :
        IF w = <<>> THEN <<>>
        ELSE IF Len(w) = 1 THEN Head(w)
        ELSE Head(w) \o sep \o JoinWith(sep, Tail(w)))

\* str.strip()
Strip(str) ==
    With(List(str), LAMBDA s :
    With({i \in DOMAIN s : s[i] \notin Whitespace}, LAMBDA inside :
        IF inside = {} THEN <<>>
        ELSE SubSeq(s, CHOOSE i \in inside : \A j \in inside : i <= j,
                       CHOOSE i \in inside : \A j \in inside : j <= i)))

\* re.sub(r'\s+', ' ', text).strip()
NormalizeWhitespace(str) == Join(Split(str))

\* str.endswith(suffix)
EndsWith(str, suffix) ==
    /\ Len(str) >= Len(suffix)
    /\ SubSeq(str, Len(str) - Len(suffix) + 1, Len(str)) = suffix

\* str[:-n]
DropLast(str, n) == SubSeq(str, 1, Len(str) - n)

\* the truth value of a text: `if text`
Truthy(text) ==
    CASE text.type = "str" -> text.str # <<>>
      [] text.type = "int" -> text.int # 0
      [] OTHER -> FALSE

\* TextPreprocessor.handle_missing_values, for a str, a falsy int or None
handle_missing_values(text) ==
    IF text.type = "NoneType" THEN <<>>
    ELSE IF text.type # "str" THEN <<>>
    ELSE Strip(text.str)

\* TextPreprocessor.clean_text: lower case, every character that is neither
\* a word character nor whitespace becomes a blank, whitespace is normalized
clean_text(text) ==
    LET WordChar(c) == \E i \in DOMAIN LowerCase : LowerCase[i] = c
    IN With(List(Lower(text)), LAMBDA lowered :
           NormalizeWhitespace([i \in DOMAIN lowered |->
               IF WordChar(lowered[i]) \/ lowered[i] \in Whitespace
               THEN lowered[i] ELSE " "]))

\* TextPreprocessor.normalize_text: no contraction is left to expand
normalize_text(text) == NormalizeWhitespace(text)

\* TextPreprocessor.tokenize
tokenize(text, min_length, max_length) ==
    LET InLength(token) == min_length <= Len(token) /\ Len(token) <= max_length
    IN With(Split(text), LAMBDA words : SelectSeq(words, InLength))

\* the stop words that are made of the letters the texts use
stop_words ==
    {<<"a">>, <<"a","n">>, <<"t","h","e">>,
     <<"a","n","d">>, <<"t","o">>, <<"o","f">>,
     <<"a","s">>, <<"a","t">>, <<"t","o","o">>,
     <<"s","o">>, <<"d","o">>, <<"d","o","e","s">>,
     <<"h","a","s">>, <<"h","a","d">>, <<"h","e">>,
     <<"s","h","e">>, <<"t","h","o","s","e">>, <<"t","h","e","s","e">>,
     <<"t","h","a","t">>, <<"o","n">>, <<"n","o">>,
     <<"n","o","t">>, <<"t","h","e","n">>, <<"t","h","a","n">>,
     <<"e","a","c","h">>, <<"s","u","c","h">>, <<"a","l","s","o">>}

\* TextPreprocessor.remove_stop_words
remove_stop_words(tokens) ==
    LET Kept(token) == List(Lower(token)) \notin stop_words
    IN With(tokens, LAMBDA t : SelectSeq(t, Kept))

\* the entries of the lemmatization dictionary made of the letters the texts use
lemmatization_dict ==
    LET entries == {<<<<"s","a","w">>, <<"s","e","e">>>>,
                    <<<<"s","e","e","n">>, <<"s","e","e">>>>,
                    <<<<"g","o","t">>, <<"g","e","t">>>>,
                    <<<<"g","o","n","e">>, <<"g","o">>>>,
                    <<<<"d","o","n","e">>, <<"d","o">>>>,
                    <<<<"b","e","s","t">>, <<"g","o","o","d">>>>,
                    <<<<"l","e","s","s">>, <<"l","i","t","t","l","e">>>>}
    IN [word \in {entry[1] : entry \in entries} |->
           (CHOOSE entry \in entries : entry[1] = word)[2]]

\* TextPreprocessor.lemmatize, for one token
lemmatize_token(token) ==
    With(List(Lower(token)), LAMBDA t :
    LET n == Len(t)
        Ends(s) == EndsWith(t, s)
    IN IF t \in DOMAIN lemmatization_dict THEN lemmatization_dict[t]
       ELSE IF Ends(<<"i","e","s">>) /\ n > 4 THEN DropLast(t, 3) \o <<"y">>
       ELSE IF Ends(<<"v","e","s">>) /\ n > 4 THEN DropLast(t, 3) \o <<"f">>
       ELSE IF Ends(<<"s","e","s">>) /\ n > 4 THEN DropLast(t, 2)
       ELSE IF Ends(<<"e","s">>) /\ n > 3
            THEN IF Ends(<<"c","h","e","s">>) \/ Ends(<<"s","h","e","s">>) \/ Ends(<<"x","e","s">>) \/ Ends(<<"z","e","s">>)
                 THEN DropLast(t, 2)
                 ELSE IF ~(Ends(<<"l","e","s">>) \/ Ends(<<"r","e","s">>) \/ Ends(<<"t","e","s">>)
                           \/ Ends(<<"n","e","s">>) \/ Ends(<<"m","e","s">>) \/ Ends(<<"p","e","s">>))
                      THEN DropLast(t, 1)
                      ELSE t
       ELSE IF Ends(<<"s">>) /\ n > 3
            THEN IF ~(Ends(<<"s","s">>) \/ Ends(<<"u","s">>) \/ Ends(<<"i","s">>))
                 THEN DropLast(t, 1)
                 ELSE t
       ELSE IF Ends(<<"e","d">>) /\ n > 4
            THEN IF Ends(<<"i","e","d">>) THEN DropLast(t, 3) \o <<"y">> ELSE DropLast(t, 2)
       ELSE IF Ends(<<"i","n","g">>) /\ n > 5 THEN DropLast(t, 3)
       ELSE IF Ends(<<"e","r">>) /\ n > 4
            THEN IF Ends(<<"i","e","r">>) THEN DropLast(t, 3) \o <<"y">> ELSE DropLast(t, 2)
       ELSE IF Ends(<<"e","s","t">>) /\ n > 5
            THEN IF Ends(<<"i","e","s","t">>) THEN DropLast(t, 4) \o <<"y">> ELSE DropLast(t, 3)
       ELSE IF Ends(<<"l","y">>) /\ n > 4
            THEN IF Ends(<<"i","l","y">>) THEN DropLast(t, 3) \o <<"y">> ELSE DropLast(t, 2)
       ELSE IF Ends(<<"t","i","o","n">>) /\ n > 6 THEN DropLast(t, 4) \o <<"t","e">>
       ELSE IF Ends(<<"s","i","o","n">>) /\ n > 6 THEN DropLast(t, 4) \o <<"d","e">>
       ELSE IF Ends(<<"n","e","s","s">>) /\ n > 6 THEN DropLast(t, 4)
       ELSE IF Ends(<<"m","e","n","t">>) /\ n > 6 THEN DropLast(t, 4)
       ELSE t)

\* TextPreprocessor.lemmatize
lemmatize(tokens) ==
    With(tokens, LAMBDA t : List([i \in DOMAIN t |-> lemmatize_token(t[i])]))

\* preprocess_text_comprehensive(text, options): the exception it raises,
\* or the 'tokens' of its result
preprocess(text, options) ==
    IF Truthy(text) /\ text.type # "str"
    THEN [raised |-> TypeError, tokens |-> <<>>]
    ELSE With(handle_missing_values(text), LAMBDA handled :
         With(clean_text(handled), LAMBDA cleaned_text :
         With(normalize_text(cleaned_text), LAMBDA normalized_text :
         With(tokenize(normalized_text, options.min_token_length,
                       options.max_token_length), LAMBDA tokenized :
         With(IF options.remove_stopwords
              THEN remove_stop_words(tokenized) ELSE tokenized, LAMBDA filtered :
         With(IF options.use_lemmatization
              THEN lemmatize(filtered) ELSE filtered, LAMBDA tokens :
             IF handled = <<>> THEN [raised |-> None, tokens |-> <<>>]
             ELSE [raised |-> None, tokens |-> tokens]))))))

(***************************************************************************)
(* TopicModelingEngine of backend/advanced_topic_modeling.py.  An error    *)
(* message is the list of its parts: a wrapper's prefix followed by the    *)
(* parts of the message it wraps.                                          *)
(***************************************************************************)
\* preprocessing_options or {...}: the defaults of preprocess_for_topic_modeling
DefaultPreprocessingOptions ==
    [remove_stopwords |-> TRUE, use_lemmatization |-> TRUE,
     min_token_length |-> 3, max_token_length |-> 50]

\* a loop without the try/except around a text: the first text whose
\* preprocessing raises ends it
RECURSIVE preprocess_loop_aborting(_, _, _, _)
preprocess_loop_aborting(texts, i, options, acc) ==
    IF i > Len(texts) THEN acc
    ELSE With(preprocess(texts[i], options), LAMBDA preprocessed :
         With(preprocessed.tokens, LAMBDA tokens :
             IF preprocessed.raised # None THEN acc
             ELSE With(IF tokens # <<>>
                       THEN With(Join(tokens), LAMBDA processed_text :
                                [acc EXCEPT
                                   !.processed_texts = Append(@, processed_text),
                                   !.successfully_processed = @ + 1,
                                   !.total_original_chars =
                                       @ + Len(handle_missing_values(texts[i])),
                                   !.total_processed_chars = @ + Len(processed_text),
                                   !.total_tokens = @ + Len(tokens),
                                   !.unique_tokens = @ \cup Elements(tokens)])
                       ELSE [acc EXCEPT !.failed_processing = @ + 1],
                       LAMBDA next : preprocess_loop_aborting(texts, i + 1, options, next))))

\* the loop of preprocess_for_topic_modeling over texts[i ..], from the
\* lists and counters acc built so far
RECURSIVE preprocess_loop(_, _, _, _)
preprocess_loop(texts, i, options, acc) ==
    IF i > Len(texts) THEN acc
    ELSE With(preprocess(texts[i], options), LAMBDA preprocessed :
         With(preprocessed.tokens, LAMBDA tokens :
         With(IF preprocessed.raised # None
              THEN [acc EXCEPT !.failed_processing = @ + 1]
              ELSE IF tokens # <<>>
              THEN With(Join(tokens), LAMBDA processed_text :
                       [acc EXCEPT
                          !.processed_texts = Append(@, processed_text),
                          !.successfully_processed = @ + 1,
                          !.total_original_chars = @ + Len(handle_missing_values(texts[i])),
                          !.total_processed_chars = @ + Len(processed_text),
                          !.total_tokens = @ + Len(tokens),
                          !.unique_tokens = @ \cup Elements(tokens)])
              ELSE [acc EXCEPT !.failed_processing = @ + 1],
              LAMBDA next : preprocess_loop(texts, i + 1, options, next))))

\* TopicModelingEngine.preprocess_for_topic_modeling
preprocess_for_topic_modeling(texts, options) ==
    With(preprocess_loop(texts, 1, options,
             [processed_texts |-> <<>>, original_texts |-> Len(texts),
              successfully_processed |-> 0, failed_processing |-> 0,
              total_original_chars |-> 0, total_processed_chars |-> 0,
              total_tokens |-> 0, unique_tokens |-> {}]), LAMBDA done :
    LET processed_texts == done.processed_texts
    IN [processed_texts |-> processed_texts,
        data_characteristics |->
            [num_documents |-> Len(processed_texts),
             avg_doc_length |-> IF processed_texts # <<>>
                                THEN Rat(done.total_tokens, Len(processed_texts))
                                ELSE RatOf(0),
             vocabulary_size |-> Cardinality(done.unique_tokens),
             total_tokens |-> done.total_tokens,
             compression_ratio |-> IF done.total_original_chars > 0
                                   THEN Rat(done.total_processed_chars, done.total_original_chars)
                                   ELSE RatOf(0)],
        preprocessing_stats |->
            [original_texts |-> done.original_texts,
             successfully_processed |-> done.successfully_processed,
             failed_processing |-> done.failed_processing,
             total_tokens |-> done.total_tokens,
             unique_tokens |-> done.unique_tokens]])

\* re.split(r'[.!?]+', text), stripped, the empty pieces dropped
split_sentences(text) ==
    LET NonEmpty(s) == s # <<>>
    IN With(SplitOn(text, {".", "!", "?"}), LAMBDA pieces :
       With(List([i \in DOMAIN pieces |-> Strip(pieces[i])]), LAMBDA stripped :
           SelectSeq(stripped, NonEmpty)))

\* a fallback that halves any text of 2 words or more
split_by_words_from_two(original_text) ==
    With(Split(original_text), LAMBDA words :
    LET mid_point == Len(words) \div 2
    IN IF Len(words) >= 2
       THEN <<Join(SubSeq(words, 1, mid_point)),
              Join(SubSeq(words, mid_point + 1, Len(words)))>>
       ELSE <<original_text>>)

\* "Fallback: split by words"
split_by_words(original_text) ==
    With(Split(original_text), LAMBDA words :
    LET mid_point == Len(words) \div 2
    IN IF Len(words) >= 4
       THEN <<Join(SubSeq(words, 1, mid_point)),
              Join(SubSeq(words, mid_point + 1, Len(words)))>>
       ELSE <<original_text>>)

\* a split that tries the words before the sentences
split_single_document_words_first(original_text) ==
    IF Len(original_text) > 50
    THEN With(split_by_words(original_text), LAMBDA by_words :
         With(split_sentences(original_text), LAMBDA sentences :
         LET mid_point == Len(sentences) \div 2
         IN IF Len(by_words) = 2 THEN by_words
            ELSE IF Len(sentences) >= 2
            THEN <<Append(JoinWith(<<".", " ">>, SubSeq(sentences, 1, mid_point)), "."),
                   Append(JoinWith(<<".", " ">>,
                                   SubSeq(sentences, mid_point + 1, Len(sentences))), ".")>>
            ELSE <<original_text>>))
    ELSE <<original_text>>

\* perform_topic_modeling, "Handle single document by splitting if needed":
\* the new processed_texts for the single document original_text
split_single_document(original_text) ==
    IF Len(original_text) > 50
    THEN With(split_sentences(original_text), LAMBDA sentences :
         LET mid_point == Len(sentences) \div 2
         IN IF Len(sentences) >= 2
            THEN With(Strip(JoinWith(<<".", " ">>, SubSeq(sentences, 1, mid_point))),
                      LAMBDA chunk1 :
                 With(Strip(JoinWith(<<".", " ">>,
                                     SubSeq(sentences, mid_point + 1, Len(sentences)))),
                      LAMBDA chunk2 :
                     IF chunk1 # <<>> /\ chunk2 # <<>>
                     THEN <<Append(chunk1, "."), Append(chunk2, ".")>>
                     ELSE split_by_words(original_text)))
            ELSE split_by_words(original_text))
    ELSE <<original_text>>

\* data_characteristics.update(...) after the split
update_data_characteristics(data_characteristics, processed_texts) ==
    IF Len(processed_texts) > 1
    THEN [data_characteristics EXCEPT
            !.num_documents = Len(processed_texts),
            !.avg_doc_length =
                Rat(SumSeq([d \in DOMAIN processed_texts |-> Len(Split(processed_texts[d]))]),
                    Len(processed_texts))]
    ELSE data_characteristics

InsufficientTexts ==
    <<"Insufficient valid texts after preprocessing. Need at least 2 documents.">>

\* a check that lets a single document through
insufficient_below_one(processed_texts) == Len(processed_texts) < 1

\* perform_topic_modeling, line 707: too few documents to train on
insufficient(processed_texts) == Len(processed_texts) < 2

\* the keys of TopicModelingEngine.supported_algorithms
supported_algorithms == {<<"l","d","a">>, <<"n","m","f">>}

\* a selection that follows the recommendations: NMF is given up for a
\* vocabulary of fewer than 100 words
select_algorithm_recommended(requested, data_characteristics) ==
    LET lowered == Lower(requested)
    IN IF lowered \notin supported_algorithms THEN <<"l","d","a">>
       ELSE IF lowered = <<"n","m","f">> /\ data_characteristics.vocabulary_size < 100
       THEN <<"l","d","a">>
       ELSE lowered

\* TopicModelingEngine.select_algorithm
select_algorithm(requested, data_characteristics) ==
    LET lowered == Lower(requested)
    IN IF lowered \notin supported_algorithms THEN <<"l","d","a">> ELSE lowered

\* training_options.get(key, default) for the options a caller passes
TrainingOptions ==
    {[num_iterations |-> n, alpha |-> a, beta |-> b] :
        n \in NumIterations, a \in Alphas \cup {RatOf(0)}, b \in Betas}

\* the exception messages of the calls made while training
ExceptionMessage(raised) ==
    CASE raised = ZeroDivisionError -> <<"float division by zero">>
      [] raised = IndexError -> <<"list index out of range">>

\* the first index of the largest entry: max(range(len(l)), key=lambda i: l[i])
ArgMax(dist) ==
    CHOOSE i \in DOMAIN dist :
        /\ \A j \in DOMAIN dist : ~RatLess(dist[i], dist[j])
        /\ \A j \in 1 .. (i - 1) : RatLess(dist[j], dist[i])

\* the trained model's get_top_words(topic_id, 10)
model_get_top_words(topic_id) ==
    IF algorithm = "lda" THEN LDA_get_top_words(lda, topic_id, 10)
    ELSE NMF_get_top_words(nmf, topic_id, 10)

\* the trained model's get_document_topics(doc_id)
model_get_document_topics(d) ==
    IF algorithm = "lda" THEN LDA_get_document_topics(lda, d)
    ELSE NMF_get_document_topics(nmf, d)

\* train_*_model, "Extract trained model results": the topics list
extract_topics(num_topics) ==
    [t \in 1 .. num_topics |->
        LET top_words == model_get_top_words(t - 1).value
        IN [topic_id |-> t - 1,
            top_words |-> top_words,
            keywords |-> [i \in DOMAIN Take(top_words, 5) |-> top_words[i][1]]]]

\* a distribution for the first document only
extract_first_document_topic_distribution(texts) ==
    SubSeq([d \in DOMAIN texts |->
                LET topic_dist == model_get_document_topics(d - 1).value
                IN [document_id |-> d - 1,
                    document_preview |-> texts[d],
                    topic_probabilities |-> topic_dist,
                    dominant_topic |-> ArgMax(topic_dist) - 1,
                    dominant_topic_probability |-> topic_dist[ArgMax(topic_dist)]]], 1, 1)

\* train_*_model, "Document-topic distributions"
extract_document_topic_distributions(texts) ==
    [d \in DOMAIN texts |->
        LET topic_dist == model_get_document_topics(d - 1).value
        IN [document_id |-> d - 1,
            document_preview |-> IF Len(texts[d]) > 100
                                 THEN SubSeq(texts[d], 1, 100) \o <<".", ".", ".">>
                                 ELSE texts[d],
            topic_probabilities |-> topic_dist,
            dominant_topic |-> ArgMax(topic_dist) - 1,
            dominant_topic_probability |-> topic_dist[ArgMax(topic_dist)]]]

\* the first exception the extraction loops raise, or None
extract_raises(num_topics, texts) ==
    LET top == {t \in Range(num_topics) : model_get_top_words(t).raised # None}
        dist == {d \in Range(Len(texts)) : model_get_document_topics(d).raised # None}
    IN IF top # {}
       THEN model_get_top_words(CHOOSE t \in top : \A u \in top : t <= u).raised
       ELSE IF dist # {}
       THEN model_get_document_topics(CHOOSE d \in dist : \A u \in dist : d <= u).raised
       ELSE None

\* math.log((cooccur + 1) / word1_count), in units of 1/1000
pair_log(cooccur, word1_count) ==
    IF word1_count = 0 THEN [raised |-> ZeroDivisionError, value |-> 0]
    ELSE [raised |-> None, value |-> LnMilli(cooccur + 1) - LnMilli(word1_count)]

\* every pair of top words is scored, whatever word1_count is
pair_counted_always(word1_count) == TRUE

\* _calculate_topic_coherence, line 805: the pair is scored and counted
pair_counted(word1_count) == word1_count > 0

\* _calculate_topic_coherence, the body of `for topic in topics`: the
\* exception raised, the number of pairs counted and topic_coherence
topic_coherence(topic, texts) ==
    LET scored == Take(topic.top_words, 10)
        top_words == List([i \in DOMAIN scored |-> scored[i][1]])
        lowered == List([d \in DOMAIN texts |-> List(Lower(texts[d]))])
        has == List([i \in DOMAIN top_words |->
                   {d \in DOMAIN texts : Contains(lowered[d], top_words[i])}])
        pairs == {p \in (DOMAIN top_words) \X (DOMAIN top_words) : p[1] < p[2]}
        scores == {[pair |-> p,
                    word1_count |-> Cardinality(has[p[1]]),
                    cooccur |-> Cardinality(has[p[1]] \cap has[p[2]])] : p \in pairs}
        counted == {s \in scores : pair_counted(s.word1_count)}
        logs == {[pair |-> s.pair, log |-> pair_log(s.cooccur, s.word1_count)] : s \in counted}
        order == Ascending({l.pair[1] * 10 + l.pair[2] : l \in logs})
        total == SumSeq(List([k \in DOMAIN order |->
                     (CHOOSE l \in logs : l.pair[1] * 10 + l.pair[2] = order[k]).log.value]))
    IN [raised |-> IF \E l \in logs : l.log.raised # None THEN ZeroDivisionError ELSE None,
        pairs |-> Cardinality(counted),
        topic_coherence |-> total]

\* TopicModelingEngine._calculate_topic_coherence: the exception raised, or
\* the score in units of 1/1000
calculate_topic_coherence(topics, texts) ==
    IF topics = <<>> \/ texts = <<>> THEN [raised |-> None, value |-> RatOf(0)]
    ELSE LET per_topic == List([t \in DOMAIN topics |-> topic_coherence(topics[t], texts)])
             added == List([t \in DOMAIN topics |->
                          IF per_topic[t].pairs > 0
                          THEN Rat(per_topic[t].topic_coherence, per_topic[t].pairs)
                          ELSE RatOf(0)])
         IN IF \E t \in DOMAIN topics : per_topic[t].raised # None
            THEN [raised |-> ZeroDivisionError, value |-> RatOf(0)]
            ELSE [raised |-> None, value |-> RatDiv(RatSum(added), RatOf(Len(topics)))]

(***************************************************************************)
(* One call of perform_topic_modeling.  The texts a caller passes:         *)
(*   TextCat      "The cat."                  one token survives: cat      *)
(*   TextDogs     "Dogs and cats!"            dog cat                      *)
(*   TextStop     "the and"                   nothing survives             *)
(*   TextAxes     "Axes."                     ax, shorter than any         *)
(*                                            vocabulary word              *)
(*   TextFour     "cat dog saw cats"          4 words, 15 characters when  *)
(*                                            processed                    *)
(*   TextThree    3 words of 18 letters       56 characters when processed *)
(*   TextFifty    4 words, the last of 11     50 characters when processed *)
(*   TextFiftyOne 4 words of 12 letters, two sentences, 51 characters      *)
(*                when processed                                           *)
(* and the int 5, the int 0 and None.                                      *)
(***************************************************************************)
TextCat == Str(<<"T","h","e"," ","c","a","t",".">>)

TextDogs == Str(<<"D","o","g","s"," ","a","n","d"," ","c","a","t","s","!">>)

TextStop == Str(<<"t","h","e"," ","a","n","d">>)

TextAxes == Str(<<"A","x","e","s",".">>)

TextFour == Str(<<"c","a","t"," ","d","o","g"," ","s","a","w"," ","c","a","t","s">>)

\* word written n times without a blank
Long(word, n) == [i \in 1 .. (n * Len(word)) |-> word[((i - 1) % Len(word)) + 1]]

TextThree ==
    Str(Long(<<"c","a","t">>, 6) \o <<" ">> \o Long(<<"d","o","g">>, 6) \o <<" ">>
        \o Long(<<"c","a","t">>, 6))

TextFifty ==
    Str(Long(<<"c","a","t">>, 4) \o <<" ">> \o Long(<<"d","o","g">>, 4) \o <<" ">>
        \o Long(<<"c","a","t">>, 4) \o <<" ">> \o Long(<<"d","o","g">>, 3) \o <<"e","m">>)

TextFiftyOne ==
    Str(<<"C">> \o Tail(Long(<<"c","a","t">>, 4)) \o <<" ">> \o Long(<<"d","o","g">>, 4)
        \o <<".", " ">> \o Long(<<"d","o","g">>, 4) \o <<" ">> \o Long(<<"c","a","t">>, 4)
        \o <<"!">>)

EngineTexts ==
    {<<>>,
     <<NoneValue>>,
     <<TextStop, IntValue(5)>>,
     <<TextCat>>,
     <<TextFour>>,
     <<TextThree>>,
     <<TextFifty>>,
     <<TextFiftyOne>>,
     <<IntValue(0), TextFiftyOne, TextStop>>,
     <<TextCat, TextDogs>>,
     <<TextAxes, TextCat>>,
     <<IntValue(5), TextDogs, NoneValue, TextStop, TextFour>>}

RequestedAlgorithms == {<<"l","d","a">>, <<"N","M","F">>, <<"x","y","z">>}

\* the model that was constructed
Trained == IF algorithm = "lda" THEN lda ELSE nmf

\* perform_topic_modeling(texts, algorithm, num_topics, None, training_options)
\* has been called
EngineCall(texts, requested, num_topics, training_options) ==
    [texts |-> texts, algorithm |-> requested, num_topics |-> num_topics,
     training_options |-> training_options,
     phase |-> "CALLED", phases |-> <<>>,
     preprocessing_result |-> None, processed_texts |-> <<>>,
     data_characteristics |-> None, selected_algorithm |-> None,
     trained_on |-> None, topics |-> None, document_topic_distributions |-> None,
     coherence_score |-> None,
     outcome |-> "running", final_results |-> None, error |-> <<>>]

\* except Exception as e: raise Exception(f"Topic modeling pipeline failed: {str(e)}")
PipelineFailed(message) == <<"Topic modeling pipeline failed: ">> \o message

\* an except clause that raises a fixed message
TrainingFailedWithoutCause(message) ==
    <<IF algorithm = "lda" THEN "LDA model training failed"
      ELSE "NMF model training failed">>

\* except Exception as e: raise Exception(f"LDA model training failed: {str(e)}")
TrainingFailed(message) ==
    <<IF algorithm = "lda" THEN "LDA model training failed: "
      ELSE "NMF model training failed: ">> \o message

\* the call ends by raising Exception(message)
EngineRaise(message) ==
    engine' = [engine EXCEPT !.outcome = "raised", !.phase = "RAISED", !.error = message]

\* "Phase 1: Text Preprocessing"
EnginePreprocess ==
    /\ engine.phase = "CALLED"
    /\ LET preprocessing_result ==
               preprocess_for_topic_modeling(engine.texts, DefaultPreprocessingOptions)
       IN engine' = [engine EXCEPT
              !.preprocessing_result = preprocessing_result,
              !.processed_texts = preprocessing_result.processed_texts,
              !.data_characteristics = preprocessing_result.data_characteristics,
              !.phase = "PREPROCESS",
              !.phases = Append(@, "PREPROCESS")]
    /\ UNCHANGED <<waiting, documents, algorithm, impl, seed, rng, pc, lda, nmf, processed_docs,
                   doc_assignments, iteration, doc_id, word_pos, run, first_run, result>>

\* "Handle single document by splitting if needed"
EngineSplit ==
    /\ engine.phase = "PREPROCESS"
    /\ Len(engine.processed_texts) = 1
    /\ LET processed_texts == split_single_document(engine.processed_texts[1])
       IN engine' = [engine EXCEPT
              !.processed_texts = processed_texts,
              !.data_characteristics = update_data_characteristics(@, processed_texts),
              !.phase = "SPLIT",
              !.phases = Append(@, "SPLIT")]
    /\ UNCHANGED <<waiting, documents, algorithm, impl, seed, rng, pc, lda, nmf, processed_docs,
                   doc_assignments, iteration, doc_id, word_pos, run, first_run, result>>

\* the check for at least 2 documents, then "Phase 2: Algorithm Selection"
EngineSelect ==
    /\ \/ engine.phase = "PREPROCESS" /\ Len(engine.processed_texts) # 1
       \/ engine.phase = "SPLIT"
    /\ IF insufficient(engine.processed_texts)
       THEN EngineRaise(PipelineFailed(InsufficientTexts))
       ELSE engine' = [engine EXCEPT
                !.selected_algorithm =
                    select_algorithm(engine.algorithm, engine.data_characteristics),
                !.phase = "SELECT_ALGORITHM",
                !.phases = Append(@, "SELECT_ALGORITHM")]
    /\ UNCHANGED <<waiting, documents, algorithm, impl, seed, rng, pc, lda, nmf, processed_docs,
                   doc_assignments, iteration, doc_id, word_pos, run, first_run, result>>

\* "Phase 3: Model Training": train_lda_model or train_nmf_model constructs
\* the model and calls fit(texts)
EngineTrain ==
    /\ engine.phase = "SELECT_ALGORITHM"
    /\ documents' = engine.processed_texts
    /\ IF engine.selected_algorithm = <<"l","d","a">>
       THEN /\ algorithm' = "lda"
            /\ lda' = LDA_init(engine.num_topics, engine.training_options.alpha,
                               engine.training_options.beta,
                               engine.training_options.num_iterations)
            /\ UNCHANGED nmf
       ELSE /\ algorithm' = "nmf"
            /\ nmf' = NMF_init(engine.num_topics, engine.training_options.num_iterations)
            /\ UNCHANGED lda
    /\ pc' = "new"
    /\ engine' = [engine EXCEPT
           !.trained_on = engine.processed_texts,
           !.phase = "TRAIN",
           !.phases = Append(@, "TRAIN")]
    /\ UNCHANGED <<waiting, impl, seed, rng, processed_docs, doc_assignments, iteration,
                   doc_id, word_pos, run, first_run, result>>

\* fit raised: the except clauses of train_*_model and perform_topic_modeling
EngineTrainRaised ==
    /\ engine.phase = "TRAIN"
    /\ pc = "raised"
    /\ EngineRaise(PipelineFailed(TrainingFailed(ExceptionMessage(result))))
    /\ UNCHANGED <<waiting, documents, algorithm, impl, seed, rng, pc, lda, nmf, processed_docs,
                   doc_assignments, iteration, doc_id, word_pos, run, first_run, result>>

\* fit returned: "Extract trained model results" and "Document-topic distributions"
EngineExtract ==
    /\ engine.phase = "TRAIN"
    /\ pc = "done"
    /\ LET raised == extract_raises(engine.num_topics, documents)
       IN IF raised # None
          THEN EngineRaise(PipelineFailed(TrainingFailed(ExceptionMessage(raised))))
          ELSE engine' = [engine EXCEPT
                   !.topics = extract_topics(engine.num_topics),
                   !.document_topic_distributions =
                       extract_document_topic_distributions(documents),
                   !.phase = "EXTRACT_RESULTS",
                   !.phases = Append(@, "EXTRACT_RESULTS")]
    /\ UNCHANGED <<waiting, documents, algorithm, impl, seed, rng, pc, lda, nmf, processed_docs,
                   doc_assignments, iteration, doc_id, word_pos, run, first_run, result>>

\* "Model performance metrics": _calculate_lda_coherence / _calculate_nmf_coherence
EngineCoherence ==
    /\ engine.phase = "EXTRACT_RESULTS"
    /\ LET coherence == calculate_topic_coherence(engine.topics, documents)
       IN IF coherence.raised # None
          THEN EngineRaise(PipelineFailed(TrainingFailed(ExceptionMessage(coherence.raised))))
          ELSE engine' = [engine EXCEPT
                   !.coherence_score = coherence.value,
                   !.phase = "SCORE_COHERENCE",
                   !.phases = Append(@, "SCORE_COHERENCE")]
    /\ UNCHANGED <<waiting, documents, algorithm, impl, seed, rng, pc, lda, nmf, processed_docs,
                   doc_assignments, iteration, doc_id, word_pos, run, first_run, result>>

\* training_results and "Combine all results": the call returns final_results
EnginePackage ==
    /\ engine.phase = "SCORE_COHERENCE"
    /\ engine' = [engine EXCEPT
           !.final_results =
               [algorithm |-> IF algorithm = "lda" THEN "LDA" ELSE "NMF",
                num_topics |-> engine.num_topics,
                topics |-> engine.topics,
                document_topic_distributions |-> engine.document_topic_distributions,
                model_performance |->
                    [coherence_score |-> engine.coherence_score,
                     vocabulary_size |-> Len(Trained.vocabulary),
                     total_iterations |-> engine.training_options.num_iterations,
                     convergence_status |-> "completed"],
                training_options |-> engine.training_options,
                pipeline_summary |->
                    [input_texts |-> Len(engine.texts),
                     processed_texts |-> Len(engine.processed_texts),
                     data_characteristics |-> engine.data_characteristics,
                     preprocessing_stats |-> engine.preprocessing_result.preprocessing_stats],
                algorithm_selection |->
                    [requested_algorithm |-> engine.algorithm,
                     selected_algorithm |-> engine.selected_algorithm]],
           !.outcome = "returned",
           !.phase = "PACKAGE",
           !.phases = Append(@, "PACKAGE")]
    /\ UNCHANGED <<waiting, documents, algorithm, impl, seed, rng, pc, lda, nmf, processed_docs,
                   doc_assignments, iteration, doc_id, word_pos, run, first_run, result>>

\* perform_topic_modeling has been called; the generator is in a seeded state
InitEngine ==
    /\ \E texts \in EngineTexts, requested \in RequestedAlgorithms,
          num_topics \in NumTopics, training_options \in TrainingOptions :
          engine = EngineCall(texts, requested, num_topics, training_options)
    /\ documents = <<>>
    /\ algorithm = None
    /\ impl = "advanced"
    /\ seed \in RngStates
    /\ rng = seed
    /\ pc = "idle"
    /\ lda = None
    /\ nmf = None
    /\ processed_docs = <<>>
    /\ doc_assignments = <<>>
    /\ iteration = 0
    /\ doc_id = 0
    /\ word_pos = 0
    /\ run = 0
    /\ first_run = None
    /\ waiting = None
    /\ result = NoResult

NextEngine ==
    \/ EnginePreprocess
    \/ EngineSplit
    \/ EngineSelect
    \/ EngineTrain
    \/ LDAFit
    \/ NMFFitStart
    \/ NMFIterate
    \/ NMFFitReturn
    \/ EngineTrainRaised
    \/ EngineExtract
    \/ EngineCoherence
    \/ EnginePackage

SpecEngine == InitEngine /\ [][NextEngine]_vars

\* _calculate_topic_coherence called on its own: the topics a caller passes
\* have top words that occur in the texts (cat, dog) or in none (emu)
CoherenceTopWords ==
    {<<>>,
     <<<<<<"c","a","t">>, RatOf(1)>>>>,
     <<<<<<"c","a","t">>, RatOf(1)>>, <<<<"d","o","g">>, RatOf(1)>>>>,
     <<<<<<"e","m","u">>, RatOf(1)>>, <<<<"c","a","t">>, RatOf(1)>>>>,
     <<<<<<"d","o","g">>, RatOf(1)>>, <<<<"e","m","u">>, RatOf(1)>>,
       <<<<"c","a","t">>, RatOf(1)>>>>}

CoherenceTopics ==
    SeqsUpTo({[topic_id |-> 0, top_words |-> w, keywords |-> <<>>] : w \in CoherenceTopWords},
             MaxTopics)

\* a caller computes the coherence of topics over the texts in documents
CalculateTopicCoherence ==
    /\ engine.phase = "EXTRACT_RESULTS"
    /\ result' = [call |-> "_calculate_topic_coherence", id |-> 0, num_words |-> 0,
                  ret |-> calculate_topic_coherence(engine.topics, documents)]
    /\ engine' = [engine EXCEPT !.phase = "SCORE_COHERENCE"]
    /\ UNCHANGED <<waiting, documents, algorithm, impl, seed, rng, pc, lda, nmf, processed_docs,
                   doc_assignments, iteration, doc_id, word_pos, run, first_run>>

\* a list of topics and a list of texts are at hand
InitCoherence ==
    /\ \E topics \in CoherenceTopics :
          engine = [EngineCall(<<>>, <<>>, Len(topics), [num_iterations |-> 0])
                        EXCEPT !.topics = topics, !.phase = "EXTRACT_RESULTS"]
    /\ documents \in Corpora \cup {<<>>}
    /\ algorithm = None
    /\ impl = "advanced"
    /\ seed = Unseeded
    /\ rng = Unseeded
    /\ pc = "idle"
    /\ lda = None
    /\ nmf = None
    /\ processed_docs = <<>>
    /\ doc_assignments = <<>>
    /\ iteration = 0
    /\ doc_id = 0
    /\ word_pos = 0
    /\ run = 0
    /\ first_run = None
    /\ waiting = None
    /\ result = NoResult

NextCoherence == CalculateTopicCoherence

SpecCoherence == InitCoherence /\ [][NextCoherence]_vars

\* The split of perform_topic_modeling applied on its own to one document:
\* up to MaxWords distinct words, the first two of 26 letters, each followed
\* by a blank, by ". " or by "!?"
MaxWords == 5

SplitWords ==
    <<Long(<<"a","b">>, 13), Long(<<"c","d">>, 13), <<"e","f","g">>, <<"h","i","j">>,
      <<"k","l","m">>, <<"n","o","p">>>>

SplitEnds == {<<" ">>, <<".", " ">>, <<"!", "?">>}

RECURSIVE SplitDocumentsOf(_)
SplitDocumentsOf(k) ==
    IF k = 0 THEN {<<>>}
    ELSE {d \o SplitWords[k] \o end : d \in SplitDocumentsOf(k - 1), end \in SplitEnds}

SplitDocuments == UNION {SplitDocumentsOf(k) : k \in 1 .. MaxWords}

\* the single processed text is split
SplitSingleDocument ==
    /\ pc = "idle"
    /\ Len(documents) = 1
    /\ result' = [call |-> "split", id |-> 0, num_words |-> 0,
                  ret |-> [raised |-> None, value |-> split_single_document(documents[1])]]
    /\ pc' = "done"
    /\ UNCHANGED <<engine, waiting, documents, algorithm, impl, seed, rng, lda, nmf, processed_docs,
                   doc_assignments, iteration, doc_id, word_pos, run, first_run>>

\* one processed text is at hand
InitSplit ==
    /\ \E original_text \in SplitDocuments : documents = <<original_text>>
    /\ engine = None
    /\ algorithm = None
    /\ impl = "advanced"
    /\ seed = Unseeded
    /\ rng = Unseeded
    /\ pc = "idle"
    /\ lda = None
    /\ nmf = None
    /\ processed_docs = <<>>
    /\ doc_assignments = <<>>
    /\ iteration = 0
    /\ doc_id = 0
    /\ word_pos = 0
    /\ run = 0
    /\ first_run = None
    /\ waiting = None
    /\ result = NoResult

NextSplit == SplitSingleDocument

SpecSplit == InitSplit /\ [][NextSplit]_vars

(***************************************************************************)
(* Two fit calls in one process.  Thread A calls fit on its instance, is   *)
(* alone during a first call, seeds the generator again and calls fit a    *)
(* second time; during that call thread B calls fit on an instance of its  *)
(* own and the interpreter switches between the two threads from step to   *)
(* step.  Both draw from the one module-level generator.                   *)
(***************************************************************************)
\* The instance and the locals of the fit call of the running thread
Frame(thread) ==
    [thread |-> thread, documents |-> documents, lda |-> lda, pc |-> pc,
     processed_docs |-> processed_docs, doc_assignments |-> doc_assignments,
     iteration |-> iteration, doc_id |-> doc_id, word_pos |-> word_pos, run |-> run]

Running == IF waiting.thread = "B" THEN "A" ELSE "B"

\* B's SimpleLDA(num_topics=2, alpha=0.5, beta=0.5, num_iterations=0) and
\* corpus: its fit call draws the initial topics of two tokens
ThreadB ==
    [thread |-> "B", documents |-> <<DocCatDog>>,
     lda |-> LDA_init(2, <<1, 2>>, <<1, 2>>, 0), pc |-> "new",
     processed_docs |-> <<>>, doc_assignments |-> <<>>,
     iteration |-> 0, doc_id |-> 0, word_pos |-> 0, run |-> 0]

\* A has seeded the generator for its second call, or is in that call
SecondCall == Running = "A" /\ (run = 2 \/ (run = 1 /\ pc = "new"))

\* The interpreter suspends the running thread and resumes the other one,
\* which has not returned yet.
Switch ==
    /\ algorithm = "lda"
    /\ Running = "B" \/ SecondCall
    /\ waiting.pc # "done"
    /\ waiting' = Frame(Running)
    /\ documents' = waiting.documents
    /\ lda' = waiting.lda
    /\ pc' = waiting.pc
    /\ processed_docs' = waiting.processed_docs
    /\ doc_assignments' = waiting.doc_assignments
    /\ iteration' = waiting.iteration
    /\ doc_id' = waiting.doc_id
    /\ word_pos' = waiting.word_pos
    /\ run' = waiting.run
    /\ UNCHANGED <<engine, algorithm, impl, seed, rng, nmf, first_run, result>>

\* A seeds the generator again after its first call
ThreadASeedAndFitAgain ==
    /\ Running = "A"
    /\ SeedAndFitAgain

InitThreads ==
    /\ documents \in Corpora
    /\ algorithm = "lda"
    /\ impl = "advanced"
    /\ \E num_topics \in NumTopics, alpha \in Alphas, beta \in Betas,
          num_iterations \in NumIterations :
          lda = LDA_init(num_topics, alpha, beta, num_iterations)
    /\ nmf = None
    /\ seed \in RngStates
    /\ rng = seed
    /\ pc = "new"
    /\ processed_docs = <<>>
    /\ doc_assignments = <<>>
    /\ iteration = 0
    /\ doc_id = 0
    /\ word_pos = 0
    /\ run = 0
    /\ first_run = None
    /\ result = NoResult
    /\ engine = None
    /\ waiting = ThreadB

NextThreads ==
    \/ LDAFit
    \/ ThreadASeedAndFitAgain
    \/ Switch

SpecThreads == InitThreads /\ [][NextThreads]_vars

(***************************************************************************)
(* Properties of SimpleLDA's count tables.                                 *)
(***************************************************************************)
\* fit has returned from initialize_assignments and is between two sweeps, or has returned
BetweenSweeps == algorithm = "lda" /\ pc \in {"sweep", "done"}

\* fit has returned from initialize_assignments and is between two sampling steps
BetweenSteps == algorithm = "lda" /\ pc \in {"sweep", "scan", "done"}

DocSum(d) == SumSeq(lda.doc_topic_counts[d])

TopicDocSum(t) == SumSeq([d \in DOMAIN lda.doc_topic_counts |-> lda.doc_topic_counts[d][t]])

WordSum(w) == SumSeq([t \in DOMAIN lda.topic_word_counts |-> lda.topic_word_counts[t][w]])

Occurrences(w) == SumSeq([d \in DOMAIN processed_docs |-> Count(processed_docs[d], w - 1)])

TotalTokens == SumSeq([d \in DOMAIN processed_docs |-> Len(processed_docs[d])])

\* C1: after initialize_assignments and after every complete Gibbs sweep, for
\* every document the topic counts of the document add up to its length.
C1_DocCountsAfterSweep ==
    BetweenSweeps =>
        \A d \in DOMAIN lda.doc_topic_counts : DocSum(d) = lda.doc_lengths[d]

\* a sweep has been completed on a document whose two tokens sit in two topics
C1_Witness ==
    /\ BetweenSweeps
    /\ iteration >= 1
    /\ \E d \in DOMAIN lda.doc_topic_counts :
          /\ lda.doc_lengths[d] = 2
          /\ \E t \in DOMAIN lda.doc_topic_counts[d] : lda.doc_topic_counts[d][t] = 1

\* C2: after initialize_assignments and after every sweep, topic_counts[t] is
\* the row sum of topic_word_counts[t] and the column sum of doc_topic_counts
\* for t, and the topic counts add up to the number of vocabulary-filtered tokens.
C2_TopicCountsAfterSweep ==
    BetweenSweeps =>
        /\ \A t \in DOMAIN lda.topic_counts :
              /\ lda.topic_counts[t] = SumSeq(lda.topic_word_counts[t])
              /\ lda.topic_counts[t] = TopicDocSum(t)
        /\ SumSeq(lda.topic_counts) = TotalTokens

\* a sweep has been completed and two topics hold tokens of a corpus of two documents
C2_Witness ==
    /\ BetweenSweeps
    /\ iteration >= 1
    /\ Len(processed_docs) = 2
    /\ TotalTokens >= 3
    /\ Cardinality({t \in DOMAIN lda.topic_counts : lda.topic_counts[t] > 0}) >= 2

\* C3: after initialize_assignments and after every sampling step, for every
\* vocabulary word the counts of the word over the topics add up to the
\* number of occurrences of the word in the vocabulary-filtered corpus.
C3_WordMassConserved ==
    BetweenSteps =>
        \A w \in DOMAIN lda.vocabulary : WordSum(w) = Occurrences(w)

\* a sampling step has moved one of the two occurrences of a word to another topic
C3_Witness ==
    /\ algorithm = "lda"
    /\ pc = "scan"
    /\ word_pos >= 1
    /\ \E w \in DOMAIN lda.vocabulary :
          /\ Occurrences(w) >= 2
          /\ \E t \in DOMAIN lda.topic_word_counts : lda.topic_word_counts[t][w] = 1

\* C4 as claimed: in every state of fit after the tables have been filled,
\* the states inside a sampling step included, the topic counts of every
\* document add up to its length.
C4_DocCountsAtAllTimes ==
    (algorithm = "lda" /\ pc \in {"sweep", "scan", "resample", "done"}) =>
        \A d \in DOMAIN lda.doc_topic_counts : DocSum(d) = lda.doc_lengths[d]

\* C4, amended: the topic counts of a document add up to its length between
\* sampling steps; inside a sampling step the document of the token being
\* resampled is one short and every other document is complete; while
\* initialize_assignments runs, the sum is the number of tokens assigned so far.
C4_DocCountsBetweenSteps ==
    /\ BetweenSteps =>
          \A d \in DOMAIN lda.doc_topic_counts : DocSum(d) = lda.doc_lengths[d]
    /\ (algorithm = "lda" /\ pc = "resample") =>
          \A d \in DOMAIN lda.doc_topic_counts :
              DocSum(d) = IF d = doc_id + 1 THEN lda.doc_lengths[d] - 1 ELSE lda.doc_lengths[d]
    /\ (algorithm = "lda" /\ pc = "init") =>
          \A d \in DOMAIN lda.doc_topic_counts :
              DocSum(d) = IF d < doc_id + 1 THEN lda.doc_lengths[d]
                          ELSE IF d = doc_id + 1 THEN word_pos ELSE 0

\* a token of the second sweep has been removed from a document of two tokens
C4_Witness ==
    /\ algorithm = "lda"
    /\ pc = "resample"
    /\ iteration = 1
    /\ lda.doc_lengths[doc_id + 1] = 2
    /\ DocSum(doc_id + 1) = 1

(***************************************************************************)
(* Properties of the query calls.                                          *)
(***************************************************************************)
One == RatOf(1)

IsPositive(q) == q[1] > 0 /\ q[2] > 0

DocQueryInRange ==
    /\ pc = "done"
    /\ result.call = "get_document_topics"
    /\ result.id \in Range(Len(documents))

\* C5: for an in-range doc_id after fit, get_document_topics returns num_topics
\* entries; for SimpleLDA all are > 0 and they add up to 1, and are all
\* 1/num_topics for a document left empty by the vocabulary filter; for
\* SimpleNMF they add up to 1 when the row of W is non-zero and are all
\* 1/num_topics when the row sums to 0.
C5_DocumentTopicsIsDistribution ==
    DocQueryInRange =>
        LET value == result.ret.value
        IN /\ result.ret.raised = None
           /\ algorithm = "lda" =>
                 /\ Len(value) = lda.num_topics
                 /\ \A t \in DOMAIN value : IsPositive(value[t])
                 /\ RatSum(value) = One
                 /\ lda.doc_lengths[result.id + 1] = 0 =>
                       \A t \in DOMAIN value : value[t] = Rat(1, lda.num_topics)
           /\ algorithm = "nmf" =>
                 LET row == nmf.W[result.id + 1]
                 IN /\ Len(value) = nmf.num_topics
                    /\ (\E t \in DOMAIN row : row[t] # 0) => RatSum(value) = One
                    /\ SumSeq(row) = 0 =>
                          \A t \in DOMAIN value : value[t] = Rat(1, nmf.num_topics)

\* SimpleLDA has returned an uneven distribution for a document of two tokens
C5_Witness ==
    /\ DocQueryInRange
    /\ algorithm = "lda"
    /\ lda.num_topics = 2
    /\ lda.doc_lengths[result.id + 1] = 2
    /\ result.ret.value[1] # result.ret.value[2]

(***************************************************************************)
(* Determinism of SimpleLDA.fit under a fixed seed (SpecSeeded).           *)
(***************************************************************************)
\* C6: the second of two fit runs started from the same seed, with the same
\* corpus and hyperparameters, ends with the topic_assignments and the three
\* count tables the first run ended with.
C6_SameSeedSameResult ==
    (pc = "done" /\ run = 2) =>
        /\ lda.topic_assignments = first_run.topic_assignments
        /\ lda.doc_topic_counts = first_run.doc_topic_counts
        /\ lda.topic_word_counts = first_run.topic_word_counts
        /\ lda.topic_counts = first_run.topic_counts

\* both runs have swept a corpus of at least three tokens and ended with two topics in use
C6_Witness ==
    /\ pc = "done"
    /\ run = 2
    /\ lda.num_iterations >= 1
    /\ TotalTokens >= 3
    /\ Cardinality({t \in DOMAIN lda.topic_counts : lda.topic_counts[t] > 0}) >= 2

(***************************************************************************)
(* Properties of SimpleNMF.fit.                                            *)
(***************************************************************************)
\* The matrices initialize_matrices drew from the seeded generator
NMFInitial ==
    [nmf EXCEPT
        !.W = NMF_initialize_W(seed, Len(documents), nmf.num_topics),
        !.H = NMF_initialize_H(seed, Len(documents), nmf.num_topics, Len(nmf.vocabulary))]

RECURSIVE NMFUpdated(_, _)
NMFUpdated(m, n) == IF n = 0 THEN m ELSE NMFUpdated(NMFBackup_update_matrices(m), n - 1)

\* C7 as claimed: after fit with num_iterations >= 1, W and H are the initial
\* random matrices after num_iterations multiplicative-update steps.
C7_FitAppliesUpdates ==
    (algorithm = "nmf" /\ pc = "done" /\ nmf.num_iterations >= 1) =>
        LET expected == NMFUpdated(NMFInitial, nmf.num_iterations)
        IN /\ nmf.W = expected.W
           /\ nmf.H = expected.H

AllNonNegative(M) == \A i \in DOMAIN M : \A j \in DOMAIN M[i] : M[i][j] >= 0

\* C8 as claimed: after initialize_matrices and after every iteration of fit,
\* every entry of W and every entry of H is >= 0.
C8_FactorsNonNegative ==
    (algorithm = "nmf" /\ pc \in {"nmf_loop", "done"}) =>
        /\ AllNonNegative(nmf.W)
        /\ AllNonNegative(nmf.H)

(***************************************************************************)
(* The empty vocabulary.                                                   *)
(***************************************************************************)
AllTokensShort ==
    \A d \in DOMAIN documents :
        LET words == Split(Lower(documents[d]))
        IN \A i \in DOMAIN words : Len(words[i]) <= 2

TopQueryInRange ==
    /\ pc = "done"
    /\ result.call = "get_top_words"
    /\ result.id \in Range(Trained.num_topics)

Uniform(num_topics) == Repeat(Rat(1, num_topics), num_topics)

\* C9 as claimed, for the classes of advanced_topic_modeling.py: when every
\* token has length <= 2, fit does not raise, get_top_words returns the empty
\* list for every topic and get_document_topics returns the uniform vector
\* for every document.
C9_ShortCorpusGivesUniform ==
    (AllTokensShort /\ impl = "advanced") =>
        /\ pc # "raised"
        /\ TopQueryInRange => (result.ret.raised = None /\ result.ret.value = <<>>)
        /\ DocQueryInRange =>
              /\ result.ret.raised = None
              /\ result.ret.value = Uniform(Trained.num_topics)

\* C9, amended: when every token has length <= 2 the vocabulary of the
\* classes of advanced_topic_modeling.py is empty; with an empty vocabulary
\* fit does not raise, get_top_words returns the empty list for every topic,
\* and get_document_topics returns, without dividing by zero, num_topics
\* entries >= 0 that add up to 1: the uniform vector for SimpleLDA, and for
\* SimpleNMF the row of the randomly initialised W divided by its sum
\* (the uniform vector when that sum is 0).
C9_EmptyVocabularyIsHandled ==
    /\ (AllTokensShort /\ impl = "advanced" /\ pc # "new") => Trained.vocabulary = <<>>
    /\ (pc # "new" /\ Trained.vocabulary = <<>>) =>
          /\ pc # "raised"
          /\ TopQueryInRange => (result.ret.raised = None /\ result.ret.value = <<>>)
          /\ DocQueryInRange =>
                LET value == result.ret.value
                    row == NMFInitial.W[result.id + 1]
                IN /\ result.ret.raised = None
                   /\ Len(value) = Trained.num_topics
                   /\ \A t \in DOMAIN value : value[t][1] >= 0 /\ value[t][2] > 0
                   /\ RatSum(value) = One
                   /\ algorithm = "lda" => value = Uniform(lda.num_topics)
                   /\ algorithm = "nmf" =>
                         value = IF SumSeq(row) = 0 THEN Uniform(nmf.num_topics)
                                 ELSE [t \in DOMAIN row |-> Rat(row[t], SumSeq(row))]

\* SimpleNMF, trained on short tokens only, has returned an uneven distribution
C9_Witness ==
    /\ AllTokensShort
    /\ algorithm = "nmf"
    /\ impl = "advanced"
    /\ nmf.num_iterations >= 1
    /\ DocQueryInRange
    /\ nmf.num_topics = 2
    /\ result.ret.value[1] # result.ret.value[2]

(***************************************************************************)
(* get_top_words.                                                          *)
(***************************************************************************)
\* The score of vocabulary word w (position in vocabulary) under topic t (row)
Score(t, w) ==
    IF algorithm = "lda"
    THEN RatDiv(RatAdd(RatOf(lda.topic_word_counts[t][w]), lda.beta),
                RatAdd(RatOf(lda.topic_counts[t]), RatMul(RatOf(Len(lda.vocabulary)), lda.beta)))
    ELSE RatOf(nmf.H[t][w])

\* word a ranks before word b under topic t
RanksBefore(t, a, b) ==
    \/ RatLess(Score(t, b), Score(t, a))
    \/ (Score(t, a) = Score(t, b) /\ a < b)

Reported(score) == IF algorithm = "lda" THEN score ELSE RatOf(score)

\* C10: for an in-range topic_id, get_top_words returns min(num_words,
\* vocab_size) (term, score) pairs: terms of the model's vocabulary with
\* their scores, no term twice, in descending order of score with equal
\* scores in vocabulary order, and every term left out ranks after every
\* term returned.
C10_TopWordsAreTheFirstByScore ==
    TopQueryInRange =>
        LET value == result.ret.value
            vocabulary == Trained.vocabulary
            t == result.id + 1
            Position(word) == CHOOSE w \in DOMAIN vocabulary : vocabulary[w] = word
            returned == {Position(value[i][1]) : i \in DOMAIN value}
        IN /\ result.ret.raised = None
           /\ Len(value) = IF result.num_words < Len(vocabulary)
                           THEN result.num_words ELSE Len(vocabulary)
           /\ \A i \in DOMAIN value :
                 /\ \E w \in DOMAIN vocabulary : vocabulary[w] = value[i][1]
                 /\ Reported(value[i][2]) = Score(t, Position(value[i][1]))
           /\ \A i, j \in DOMAIN value :
                 i < j => RanksBefore(t, Position(value[i][1]), Position(value[j][1]))
           /\ \A w \in DOMAIN vocabulary \ returned :
                 \A r \in returned : RanksBefore(t, r, w)

\* two of three vocabulary words were returned, the cut falling between equal scores
C10_Witness ==
    /\ TopQueryInRange
    /\ Len(Trained.vocabulary) = 3
    /\ Len(result.ret.value) = 2
    /\ \E w \in DOMAIN Trained.vocabulary :
          /\ \A i \in DOMAIN result.ret.value : result.ret.value[i][1] # Trained.vocabulary[w]
          /\ Reported(result.ret.value[2][2]) = Score(result.id + 1, w)

(***************************************************************************)
(* Queries with ids outside the valid range.                               *)
(***************************************************************************)
EmptyList == [raised |-> None, value |-> <<>>]

\* the query stored in r was made with an id at or above the upper end
AboveRange(r) ==
    \/ r.call = "get_top_words" /\ r.id >= Trained.num_topics
    \/ r.call = "get_document_topics" /\ r.id >= Len(documents)

\* the query stored in r was made with an id outside 0 .. n-1
OutsideRange(r) ==
    \/ r.call = "get_top_words" /\ r.id \notin Range(Trained.num_topics)
    \/ r.call = "get_document_topics" /\ r.id \notin Range(Len(documents))

\* C11: after SimpleLDA.fit, every get_top_words call with topic_id >=
\* num_topics and every get_document_topics call with doc_id >= number of
\* documents returns the empty list without raising, and the call leaves the
\* count tables, the vocabulary and topic_assignments as they were.
C11_AboveRangeReturnsEmpty ==
    [][(algorithm = "lda" /\ pc = "done" /\ result' # result /\ AboveRange(result'))
          => (result'.ret = EmptyList /\ lda' = lda)]_vars

\* a trained SimpleLDA with a vocabulary was asked for topic num_topics
C11_Witness ==
    /\ algorithm = "lda"
    /\ pc = "done"
    /\ Len(lda.vocabulary) >= 2
    /\ lda.num_iterations >= 1
    /\ result.call = "get_top_words"
    /\ result.id = lda.num_topics
    /\ result.ret = EmptyList

\* C12 as claimed: after SimpleNMF.fit, every get_top_words call with a
\* topic_id outside 0 .. num_topics-1 returns the empty list, every
\* get_document_topics call with a doc_id outside 0 .. num_docs-1 returns the
\* uniform distribution or the empty list, and neither call raises.
C12_OutsideRangeGivesDefault ==
    (algorithm = "nmf" /\ pc = "done" /\ OutsideRange(result)) =>
        /\ result.ret.raised = None
        /\ result.call = "get_top_words" => result.ret.value = <<>>
        /\ result.call = "get_document_topics" =>
               result.ret.value \in {<<>>, NMF_uniform(nmf)}

(***************************************************************************)
(* build_vocabulary.                                                       *)
(***************************************************************************)
\* the lower-cased whitespace tokens of the corpus, in corpus order
CorpusTokens == Flatten([d \in DOMAIN documents |-> Split(Lower(documents[d]))])

FirstPosition(tokens, word) ==
    CHOOSE i \in DOMAIN tokens : tokens[i] = word /\ \A j \in 1 .. (i - 1) : tokens[j] # word

Passed(phase) == phase \in Elements(engine.phases)

\* the call ended by raising the insufficient-documents error
RaisedInsufficient ==
    /\ engine.outcome = "raised"
    /\ engine.error = PipelineFailed(InsufficientTexts)
    /\ engine.final_results = None

\* C14: train_lda_model / train_nmf_model is only ever called with at least
\* 2 documents, and a call that is past the check for 2 documents with fewer
\* than 2 documents left (0 included) has ended by raising the
\* insufficient-documents error, with no result
C14_TwoDocumentsToTrain ==
    /\ Passed("TRAIN") =>
           /\ Len(engine.trained_on) >= 2
           /\ documents = engine.trained_on
    /\ (engine.phase \notin {"CALLED", "PREPROCESS", "SPLIT"}
            /\ Len(engine.processed_texts) < 2) => RaisedInsufficient
    /\ RaisedInsufficient => ~Passed("SELECT_ALGORITHM") /\ ~Passed("TRAIN")

\* a call whose texts were all dropped in preprocessing has raised
C14_Witness ==
    /\ engine.texts # <<>>
    /\ Len(engine.processed_texts) = 0
    /\ RaisedInsufficient

\* the texts preprocess_for_topic_modeling returned
Preprocessed == engine.preprocessing_result.processed_texts

\* C15: when exactly one document is left after preprocessing and it has at
\* most 50 characters or fewer than 4 whitespace-separated words, the split
\* leaves the corpus at that one document, no model is trained and the call
\* fails with the insufficient-documents error, whichever algorithm was
\* requested
C15_ShortSingleDocumentFails ==
    (/\ Passed("PREPROCESS")
     /\ Len(Preprocessed) = 1
     /\ Len(Preprocessed[1]) <= 50 \/ Len(Split(Preprocessed[1])) < 4)
    => /\ engine.processed_texts = Preprocessed
       /\ ~Passed("SELECT_ALGORITHM") /\ ~Passed("TRAIN")
       /\ engine.phase \notin {"PREPROCESS", "SPLIT"} => RaisedInsufficient

\* a request for NMF whose single document has more than 50 characters but
\* only 3 words has gone through the split and failed
C15_Witness ==
    /\ Passed("SPLIT")
    /\ Len(Preprocessed) = 1
    /\ Len(Preprocessed[1]) > 50
    /\ Len(Split(Preprocessed[1])) = 3
    /\ Lower(engine.algorithm) = <<"n","m","f">>
    /\ RaisedInsufficient

\* C16: when exactly one document is left after preprocessing and it has
\* more than 50 characters and at least 4 words, the split leaves at least 2
\* chunks, the call raises no insufficient-documents error, the model is
\* trained on at least 2 chunks, and the document_topic_distributions of a
\* returned result has one entry per chunk trained on, entry d carrying
\* document_id d and the chunk's text, never a single entry
C16_LongSingleDocumentIsSplit ==
    (/\ Passed("PREPROCESS")
     /\ Len(Preprocessed) = 1
     /\ Len(Preprocessed[1]) > 50 /\ Len(Split(Preprocessed[1])) >= 4)
    => /\ Passed("SPLIT") => Len(engine.processed_texts) >= 2
       /\ ~RaisedInsufficient
       /\ Passed("TRAIN") => Len(engine.trained_on) >= 2
       /\ engine.outcome = "returned" =>
              LET dist == engine.final_results.document_topic_distributions
              IN /\ Len(dist) = Len(engine.trained_on)
                 /\ Len(dist) # 1
                 /\ \A d \in DOMAIN dist :
                        /\ dist[d].document_id = d - 1
                        /\ dist[d].document_preview = engine.trained_on[d]

\* a call with one document of 51 characters and 4 words has returned a
\* result for the two chunks of 2 words it was split into
C16_Witness ==
    /\ engine.outcome = "returned"
    /\ Len(engine.texts) = 1
    /\ Len(Preprocessed) = 1
    /\ Len(Preprocessed[1]) = 51
    /\ Len(engine.trained_on) = 2
    /\ Len(engine.final_results.document_topic_distributions) = 2

\* data characteristics on either side of the thresholds select_algorithm logs
\* warnings about: 10 documents, 20 tokens per document, 100 words
DataCharacteristics ==
    {[num_documents |-> n, avg_doc_length |-> RatOf(l), vocabulary_size |-> v,
      total_tokens |-> n * l, compression_ratio |-> RatOf(1)] :
        n \in {0, 2, 10}, l \in {0, 20}, v \in {0, 100}}

\* C17: select_algorithm returns the requested name lower-cased when that is
\* 'lda' or 'nmf' and 'lda' for every other name, whatever the data
\* characteristics are; the model trained is the one selected, and the
\* algorithm field of a returned result is 'LDA' for a request that is
\* neither, 'LDA' or 'NMF' as requested otherwise
C17_SelectAlgorithm ==
    LET lowered == List(Lower(engine.algorithm))
        expected == IF lowered \in {<<"l","d","a">>, <<"n","m","f">>}
                    THEN lowered ELSE <<"l","d","a">>
    IN /\ \A dc \in DataCharacteristics : select_algorithm(engine.algorithm, dc) = expected
       /\ Passed("SELECT_ALGORITHM") => engine.selected_algorithm = expected
       /\ Passed("TRAIN") => algorithm = (IF expected = <<"l","d","a">> THEN "lda" ELSE "nmf")
       /\ engine.outcome = "returned" =>
              engine.final_results.algorithm =
                  (IF expected = <<"l","d","a">> THEN "LDA" ELSE "NMF")

\* a request for 'xyz' on two documents has returned a result whose
\* algorithm field is 'LDA'
C17_Witness ==
    /\ engine.algorithm = <<"x","y","z">>
    /\ engine.outcome = "returned"
    /\ engine.final_results.algorithm = "LDA"
    /\ engine.final_results.algorithm_selection.selected_algorithm = <<"l","d","a">>

\* the positions of the texts whose preprocessing neither raises nor yields
\* an empty token list, in input order
Survivors(texts) ==
    Ascending({i \in DOMAIN texts :
                  With(preprocess(texts[i], DefaultPreprocessingOptions), LAMBDA p :
                      p.raised = None /\ p.tokens # <<>>)})

\* C18: when preprocess_for_topic_modeling has returned, every input text was
\* counted exactly once, as a success or as a failure; the failures are the
\* texts whose preprocessing raised or yielded no token; processed_texts has
\* one entry per success, and its entries are the surviving texts' joined
\* tokens in the order of the input
C18_PreprocessingKeepsTheBatch ==
    engine.phase = "PREPROCESS" =>
        LET stats == engine.preprocessing_result.preprocessing_stats
            survivors == Survivors(engine.texts)
        IN /\ stats.successfully_processed + stats.failed_processing = Len(engine.texts)
           /\ stats.original_texts = Len(engine.texts)
           /\ Len(Preprocessed) = stats.successfully_processed
           /\ stats.successfully_processed = Len(survivors)
           /\ \A k \in DOMAIN survivors :
                  Preprocessed[k] =
                      Join(preprocess(engine.texts[survivors[k]],
                                      DefaultPreprocessingOptions).tokens)

\* a batch of five texts, the first of which raised in preprocessing and two
\* of which yielded no token, has kept the second and the fifth, in that order
C18_Witness ==
    /\ engine.phase = "PREPROCESS"
    /\ Len(engine.texts) = 5
    /\ preprocess(engine.texts[1], DefaultPreprocessingOptions).raised # None
    /\ engine.preprocessing_result.preprocessing_stats.failed_processing = 3
    /\ engine.preprocessing_result.preprocessing_stats.successfully_processed = 2
    /\ Preprocessed = <<<<"d","o","g"," ","c","a","t">>,
                        <<"c","a","t"," ","d","o","g"," ","s","e","e"," ","c","a","t">>>>

\* the phases of one request, in order
PhaseOrder ==
    <<"PREPROCESS", "SPLIT", "SELECT_ALGORITHM", "TRAIN", "EXTRACT_RESULTS",
      "SCORE_COHERENCE", "PACKAGE">>

Position(phase) == CHOOSE i \in DOMAIN PhaseOrder : PhaseOrder[i] = phase

\* the phases gone through are the first phases of PhaseOrder, in that order
\* and each once, SPLIT alone being left out at will
InPhaseOrder(phases) ==
    /\ \A i \in DOMAIN phases : phases[i] \in Elements(PhaseOrder)
    /\ \A i, j \in DOMAIN phases : i < j => Position(phases[i]) < Position(phases[j])
    /\ \A i \in DOMAIN phases : \A k \in 1 .. (Position(phases[i]) - 1) :
           PhaseOrder[k] # "SPLIT" => PhaseOrder[k] \in Elements(phases)

\* message holds the parts of original at its end, after a prefix
Wraps(message, original) ==
    /\ Len(message) > Len(original)
    /\ SubSeq(message, Len(message) - Len(original) + 1, Len(message)) = original

\* C19 (states): the phases a request has gone through follow PhaseOrder;
\* a request returns a result exactly when it has gone through PACKAGE, and
\* then it has raised nothing; a request that raised has an error message
\* and no result
C19_PhasesAndOutcome ==
    /\ InPhaseOrder(engine.phases)
    /\ engine.outcome \in {"running", "returned", "raised"}
    /\ engine.outcome = "returned" <=> Passed("PACKAGE")
    /\ engine.outcome = "returned" => engine.error = <<>> /\ engine.phase = "PACKAGE"
    /\ engine.outcome = "raised" =>
           /\ engine.error # <<>>
           /\ engine.final_results = None
           /\ engine.phase = "RAISED"
    /\ engine.outcome = "running" => engine.error = <<>> /\ engine.final_results = None

\* C19 (steps): a step of the request adds at most one phase; when fit has
\* raised during TRAIN, the next step of the request raises an error whose
\* message wraps the message of the exception fit raised, and returns nothing
C19_TrainExceptionIsWrapped ==
    /\ engine'.phase # engine.phase =>
           \/ engine'.phases = engine.phases /\ engine'.outcome = "raised"
           \/ \E phase \in Elements(PhaseOrder) : engine'.phases = Append(engine.phases, phase)
    /\ (engine.phase = "TRAIN" /\ pc = "raised" /\ engine'.phase # engine.phase) =>
           /\ engine'.outcome = "raised"
           /\ engine'.final_results = None
           /\ Wraps(engine'.error, ExceptionMessage(result))
           /\ Head(engine'.error) = "Topic modeling pipeline failed: "
    /\ engine.outcome # "running" =>
           /\ engine'.phase = engine.phase
           /\ engine'.phases = engine.phases
           /\ engine'.outcome = engine.outcome
           /\ engine'.error = engine.error

\* C19: every request of perform_topic_modeling goes through PREPROCESS,
\* optionally SPLIT, SELECT_ALGORITHM, TRAIN, EXTRACT_RESULTS,
\* SCORE_COHERENCE and PACKAGE in that order, each at most once, and ends
\* with a packaged result or with a raised error, never both; an exception
\* raised during TRAIN is raised again inside a message that holds the
\* original message, and no result is returned
C19_PhaseOrder ==
    /\ [](C19_PhasesAndOutcome)
    /\ [][C19_TrainExceptionIsWrapped]_vars

\* fit divided by zero while sampling a topic for LDA, and the request raised
\* the wrapped error
C19_Witness ==
    /\ pc = "raised"
    /\ algorithm = "lda"
    /\ engine.phases = <<"PREPROCESS", "SELECT_ALGORITHM", "TRAIN">>
    /\ engine.outcome = "raised"
    /\ engine.error = <<"Topic modeling pipeline failed: ", "LDA model training failed: ",
                        "float division by zero">>

\* word occurs in none of the texts
InNoText(word, texts) == \A d \in DOMAIN texts : ~Contains(List(Lower(texts[d])), word)

\* the topic has no pair of top words to score: fewer than 2 top words, or
\* every top word that has a later one occurs in no text
NoValidPair(topic, texts) ==
    LET top_words == Take(topic.top_words, 10)
    IN \A i \in 1 .. (Len(top_words) - 1) : InNoText(top_words[i][1], texts)

\* list without its entry t
Without(list, t) == SubSeq(list, 1, t - 1) \o SubSeq(list, t + 1, Len(list))

\* C20: _calculate_topic_coherence raises nothing, whatever the topics and
\* the texts are; a topic without a valid pair adds 0 to the sum and counts
\* in the number of topics the sum is divided by: with n topics, n times the
\* score is n - 1 times the score of the same topics without that one; and
\* the score is 0 when there is no topic or no text
C20_CoherenceNeverRaises ==
    result.call = "_calculate_topic_coherence" =>
        LET topics == engine.topics
            n == Len(topics)
        IN /\ result.ret.raised = None
           /\ (topics = <<>> \/ documents = <<>>) => result.ret.value = RatOf(0)
           /\ \A t \in DOMAIN topics :
                  (documents # <<>> /\ NoValidPair(topics[t], documents)) =>
                      RatMul(result.ret.value, RatOf(n)) =
                          RatMul(calculate_topic_coherence(Without(topics, t), documents).value,
                                 RatOf(n - 1))

\* the coherence of two topics was computed: one whose first top word occurs
\* in no text, and one with a pair of top words that was scored
C20_Witness ==
    /\ result.call = "_calculate_topic_coherence"
    /\ Len(engine.topics) = 2
    /\ Len(engine.topics[1].top_words) = 2
    /\ InNoText(engine.topics[1].top_words[1][1], documents)
    /\ ~NoValidPair(engine.topics[2], documents)
    /\ result.ret.raised = None
    /\ ~RatIsZero(result.ret.value)

\* ---------------------------------------------------------------------
\* C23. A Gibbs sampling step never divides by zero: for alpha >= 0 and
\* beta >= 0 no state reached by fit has a zero divisor in sample_topic,
\* so fit never ends with ZeroDivisionError; a zero sum of the topic
\* probabilities is answered by the uniform draw.
\* Refuted with alpha = 0 and a document of one token: after the removal
\* doc_lengths[d] - 1 + num_topics * alpha is 0.
C23_SampleTopicNeverRaises ==
    algorithm = "lda" =>
        /\ pc # "raised"
        /\ pc = "resample" => ~LDA_sample_raises(lda, doc_id)

\* ---------------------------------------------------------------------
\* C29. With alpha > 0 and beta > 0 every unnormalized topic probability
\* of a sampling step is strictly positive: after the removal both
\* divisors and both numerators are positive for every topic, so the sum
\* of the probabilities is not zero and the uniform draw is never used.
Sampling == algorithm = "lda" /\ pc = "resample"

SampledWord == processed_docs[doc_id + 1][word_pos + 1]

C29_ProbabilitiesArePositive ==
    (Sampling /\ IsPositive(lda.alpha) /\ IsPositive(lda.beta)) =>
        /\ IsPositive(LDA_doc_divisor(lda, doc_id))
        /\ \A topic \in Range(lda.num_topics) :
              /\ IsPositive(LDA_word_divisor(lda, topic))
              /\ IsPositive(RatAdd(RatOf(lda.doc_topic_counts[doc_id + 1][topic + 1]),
                                   lda.alpha))
              /\ IsPositive(RatAdd(RatOf(lda.topic_word_counts[topic + 1][SampledWord + 1]),
                                   lda.beta))
              /\ IsPositive(LDA_probability(lda, doc_id, SampledWord, topic))
        /\ ~RatIsZero(RatSum(LDA_probabilities(lda, doc_id, SampledWord)))
        /\ ~LDA_sample_raises(lda, doc_id)

\* A sampling step in which one topic holds no token at all: its two
\* counts are zero and only alpha and beta keep its probability positive.
C29_Witness ==
    /\ Sampling
    /\ IsPositive(lda.alpha)
    /\ IsPositive(lda.beta)
    /\ \E topic \in Range(lda.num_topics) :
          /\ lda.topic_counts[topic + 1] = 0
          /\ lda.doc_topic_counts[doc_id + 1][topic + 1] = 0
          /\ lda.topic_word_counts[topic + 1][SampledWord + 1] = 0

\* ---------------------------------------------------------------------
\* C30. topic_assignments and the count tables agree after initialization
\* and after every completed sampling step: topic_assignments[d] has
\* doc_lengths[d] entries, each a topic in 0..num_topics-1;
\* doc_topic_counts[d][t] is the number of positions of d assigned to t;
\* topic_word_counts[t][w] is the number of occurrences of w assigned to
\* t; no count is negative.
AssignedOccurrences(t, w) ==
    SumSeq([d \in DOMAIN processed_docs |->
               Cardinality({p \in DOMAIN processed_docs[d] :
                               /\ processed_docs[d][p] = w
                               /\ lda.topic_assignments[d][p] = t})])

C30_AssignmentsMatchCounts ==
    BetweenSteps =>
        /\ Len(lda.topic_assignments) = Len(processed_docs)
        /\ \A d \in DOMAIN processed_docs :
              /\ Len(lda.topic_assignments[d]) = lda.doc_lengths[d]
              /\ lda.doc_lengths[d] = Len(processed_docs[d])
              /\ \A p \in DOMAIN lda.topic_assignments[d] :
                    lda.topic_assignments[d][p] \in Range(lda.num_topics)
              /\ \A t \in Range(lda.num_topics) :
                    /\ lda.doc_topic_counts[d][t + 1] = Count(lda.topic_assignments[d], t)
                    /\ lda.doc_topic_counts[d][t + 1] >= 0
        /\ \A t \in Range(lda.num_topics) :
              /\ lda.topic_counts[t + 1] >= 0
              /\ \A w \in Range(Len(lda.vocabulary)) :
                    /\ lda.topic_word_counts[t + 1][w + 1] = AssignedOccurrences(t, w)
                    /\ lda.topic_word_counts[t + 1][w + 1] >= 0

\* A sampling step of the second document has completed in a sweep after
\* the first one, and both topics hold tokens.
C30_Witness ==
    /\ algorithm = "lda"
    /\ pc = "scan"
    /\ iteration >= 1
    /\ doc_id = 1
    /\ word_pos >= 1
    /\ lda.num_topics = 2
    /\ \A t \in Range(lda.num_topics) : lda.topic_counts[t + 1] > 0

\* ---------------------------------------------------------------------
\* C24. Leave-one-out ordering of a sampling step: the step first takes
\* the token's old topic out of doc_topic_counts, topic_word_counts and
\* topic_counts, then computes every p(t) from these counts, which
\* exclude the token, then adds the token to the three tables under the
\* new topic and stores the new topic at the token's position. The net
\* effect is -1 for the old and +1 for the new topic, none if they are
\* equal.
OldTopic == lda.topic_assignments[doc_id + 1][word_pos + 1]

\* 1 for the topic itself, 0 for any other
Unit(t, topic) == IF t = topic THEN 1 ELSE 0

\* tables b are tables a with the sampled token counted delta times more
\* under topic, and nothing else changed
Shifted(a, b, topic, delta) ==
    /\ \A d \in DOMAIN a.doc_topic_counts : \A t \in Range(a.num_topics) :
          b.doc_topic_counts[d][t + 1] = a.doc_topic_counts[d][t + 1]
              + (IF d = doc_id + 1 THEN delta * Unit(t, topic) ELSE 0)
    /\ \A t \in Range(a.num_topics) :
          /\ b.topic_counts[t + 1] = a.topic_counts[t + 1] + delta * Unit(t, topic)
          /\ \A w \in Range(Len(a.vocabulary)) :
                b.topic_word_counts[t + 1][w + 1] = a.topic_word_counts[t + 1][w + 1]
                    + (IF w = SampledWord THEN delta * Unit(t, topic) ELSE 0)

\* between removal and draw the tables count every token but the sampled
\* one, whose old topic is still stored
C24_CountsExcludeTheToken ==
    Sampling =>
        /\ \A t \in Range(lda.num_topics) :
              /\ lda.doc_topic_counts[doc_id + 1][t + 1]
                     = Count(lda.topic_assignments[doc_id + 1], t) - Unit(t, OldTopic)
              /\ lda.topic_word_counts[t + 1][SampledWord + 1]
                     = AssignedOccurrences(t, SampledWord) - Unit(t, OldTopic)
        /\ SumSeq(lda.topic_counts) = TotalTokens - 1

C24_StepOrder ==
    /\ (algorithm = "lda" /\ pc = "scan" /\ pc' = "resample") =>
          /\ Shifted(lda, lda', OldTopic, 0 - 1)
          /\ lda'.topic_assignments = lda.topic_assignments
    /\ (Sampling /\ pc' = "scan") =>
          LET new_topic == lda'.topic_assignments[doc_id + 1][word_pos + 1]
          IN /\ new_topic \in Range(lda.num_topics)
             /\ \E r \in RngStates :
                   new_topic = LDA_new_topic(lda, LDA_probabilities(lda, doc_id, SampledWord), r)
             /\ Shifted(lda, lda', new_topic, 1)
             /\ lda'.topic_assignments =
                    [lda.topic_assignments EXCEPT ![doc_id + 1][word_pos + 1] = new_topic]
             /\ new_topic = OldTopic =>
                    \A t \in Range(lda.num_topics) :
                        lda'.doc_topic_counts[doc_id + 1][t + 1]
                            = Count(lda.topic_assignments[doc_id + 1], t)

C24_LeaveOneOut ==
    /\ [](C24_CountsExcludeTheToken)
    /\ [][C24_StepOrder]_vars

\* The removal has acted on a token in a sweep after the first: its old
\* topic no longer has a count in the token's document.
C24_Witness ==
    /\ Sampling
    /\ iteration >= 1
    /\ lda.num_topics = 2
    /\ lda.doc_topic_counts[doc_id + 1][OldTopic + 1] = 0
    /\ lda.doc_lengths[doc_id + 1] = 2

\* ---------------------------------------------------------------------
\* C25. Inverse-CDF sampling: when the unnormalized probabilities have a
\* positive sum, the topic chosen for the draw u in [0,1) is the smallest
\* topic index whose cumulative normalized probability exceeds u, and it
\* lies in 0..num_topics-1.
\* Refuted for app_minimal.py, whose test is rand_val <= cumulative: when
\* u equals a cumulative probability it chooses the topic that ends at u.
Exceeds(probabilities, i, u) ==
    RatLess(u, LDA_cumsum(probabilities, RatSum(probabilities), i))

C25_FirstTopicExceedingTheDraw ==
    (Sampling /\ pc' = "scan" /\ rng # Unseeded) =>
        LET probabilities == LDA_probabilities(lda, doc_id, SampledWord)
            u == Rat(Random(rng), Scale)
            new_topic == lda'.topic_assignments[doc_id + 1][word_pos + 1]
        IN IsPositive(RatSum(probabilities)) =>
              /\ new_topic \in Range(lda.num_topics)
              /\ Exceeds(probabilities, new_topic + 1, u)
              /\ \A i \in 1 .. new_topic : ~Exceeds(probabilities, i, u)

C25_InverseCDF == [][C25_FirstTopicExceedingTheDraw]_vars

\* ---------------------------------------------------------------------
\* C26. fit performs exactly num_iterations sweeps and then terminates.
\* A sweep starts at the first token of the first document, each sampling
\* step is followed by the next token of the same document, a document
\* is left only when its tokens are exhausted and then for the next
\* document, and the sweep ends only when the documents are exhausted:
\* every token occurrence is resampled once, in corpus order. Between
\* two sampling steps nothing changes the counts, so each step starts
\* from the tables left by the step before it.
InFit == algorithm = "lda" /\ pc \in {"sweep", "scan", "resample"}

C26_SweepCount ==
    algorithm = "lda" =>
        /\ pc \in {"scan", "resample"} => iteration < lda.num_iterations
        /\ pc = "sweep" => iteration <= lda.num_iterations
        /\ pc = "done" => iteration = lda.num_iterations

C26_SweepOrder ==
    InFit =>
        /\ (pc = "sweep" /\ pc' = "scan") =>
              /\ iteration < lda.num_iterations
              /\ doc_id' = 0
              /\ word_pos' = 0
        /\ (pc = "sweep" /\ pc' = "done") => iteration = lda.num_iterations
        /\ (pc = "scan" /\ pc' = "resample") =>
              /\ doc_id < Len(processed_docs)
              /\ word_pos < Len(processed_docs[doc_id + 1])
              /\ doc_id' = doc_id
              /\ word_pos' = word_pos
        /\ (pc = "resample" /\ pc' = "scan") =>
              /\ doc_id' = doc_id
              /\ word_pos' = word_pos + 1
        /\ (pc = "scan" /\ pc' = "scan") =>
              /\ word_pos = Len(processed_docs[doc_id + 1])
              /\ doc_id' = doc_id + 1
              /\ word_pos' = 0
        /\ (pc = "scan" /\ pc' = "sweep") =>
              /\ doc_id = Len(processed_docs)
              /\ iteration' = iteration + 1
        /\ pc' # "sweep" => iteration' = iteration
        /\ pc' \in {"sweep", "scan", "resample", "done"}
        /\ (pc # "resample" /\ pc' # "resample") => lda' = lda
        /\ processed_docs' = processed_docs

\* The steps a sweep takes: one to begin, two per token (removal and
\* draw), one to leave each document and one to end.
SweepSteps == 2 * TotalTokens + Len(processed_docs) + 2

TokensBefore(d) == SumSeq([i \in 1 .. d |-> Len(processed_docs[i])])

\* The steps of the current sweep that have been taken
StepsTaken ==
    IF pc = "sweep" THEN 0
    ELSE 1 + 2 * (TokensBefore(doc_id) + word_pos) + doc_id
           + (IF pc = "resample" THEN 1 ELSE 0)

\* The steps fit still has to take before it returns
StepsLeft ==
    IF pc = "done" THEN 0
    ELSE (lda.num_iterations - iteration) * SweepSteps + 1 - StepsTaken

\* fit never stands at a position from which no step leads on
C26_PositionInRange ==
    (algorithm = "lda" /\ pc \in {"scan", "resample"}) =>
        /\ doc_id <= Len(processed_docs)
        /\ doc_id < Len(processed_docs) => word_pos <= Len(processed_docs[doc_id + 1])
        /\ pc = "resample" =>
              /\ doc_id < Len(processed_docs)
              /\ word_pos < Len(processed_docs[doc_id + 1])

\* every step of fit brings its return one step nearer
C26_Terminates ==
    InFit => /\ StepsLeft > 0
             /\ StepsLeft' = StepsLeft - 1

C26_Sweeps ==
    /\ [](C26_SweepCount /\ C26_PositionInRange)
    /\ [][C26_SweepOrder /\ C26_Terminates]_vars

\* fit has returned after two sweeps over two documents.
C26_Witness ==
    /\ algorithm = "lda"
    /\ pc = "done"
    /\ iteration = 2
    /\ Len(processed_docs) = 2
    /\ TotalTokens >= 3

\* ---------------------------------------------------------------------
\* C28. The matrix that SimpleNMF factorizes is non-negative: every cell
\* tf * ln(num_docs / (doc_freq + 1)) of document_term_matrix is >= 0.
\* Refuted: a word found in every document has doc_freq + 1 > num_docs
\* and a negative logarithm.
C28_MatrixNonNegative ==
    (algorithm = "nmf" /\ pc \in {"nmf_loop", "done"}) =>
        AllNonNegative(nmf.document_term_matrix)

\* ---------------------------------------------------------------------
\* topic_modeling_endpoint: the TopicModelingResult built from the
\* results of perform_advanced_topic_modeling
topic_modeling_endpoint(results) ==
    [topics |-> results.topics,
     document_topic_distribution |-> results.document_topic_distributions,
     algorithm_used |-> results.algorithm,
     num_topics |-> results.num_topics,
     coherence_score |-> results.model_performance.coherence_score,
     model_performance |-> results.model_performance]

\* The name under which a request or a test spells an algorithm
Name(chars) == IF chars = <<"l","d","a">> THEN "lda"
               ELSE IF chars = <<"n","m","f">> THEN "nmf"
               ELSE "other"

\* C22. A successful request made with algorithm 'lda' (or 'nmf') reports
\* the algorithm under that same name: algorithm_used of the response is
\* 'lda' (or 'nmf').
\* Refuted: the response carries training_results['algorithm'], which is
\* 'LDA' or 'NMF'.
C22_AlgorithmUsedIsTheRequestedName ==
    (engine.outcome = "returned" /\ engine.algorithm \in supported_algorithms) =>
        topic_modeling_endpoint(engine.final_results).algorithm_used = Name(engine.algorithm)

\* ---------------------------------------------------------------------
\* C27. The split of a single document (longer than 50 characters) is an
\* order-preserving partition in two: a document of n >= 2 non-empty
\* sentences gives a first chunk of its first n \div 2 sentences and a
\* second chunk of the rest; otherwise a document of m >= 4 words gives a
\* first chunk of its first m \div 2 words and a second of the rest. Both
\* chunks are non-empty and their sentences (words), put one after the
\* other, are those of the document.
SplitResult == result.ret.value

C27_SplitIsAPartition ==
    (pc = "done" /\ result.call = "split" /\ Len(documents[1]) > 50) =>
        With(split_sentences(documents[1]), LAMBDA sentences :
        With(Split(documents[1]), LAMBDA words :
            IF Len(sentences) >= 2
            THEN /\ Len(SplitResult) = 2
                 /\ SplitResult[1] # <<>>
                 /\ SplitResult[2] # <<>>
                 /\ split_sentences(SplitResult[1])
                        = SubSeq(sentences, 1, Len(sentences) \div 2)
                 /\ split_sentences(SplitResult[2])
                        = SubSeq(sentences, Len(sentences) \div 2 + 1, Len(sentences))
                 /\ split_sentences(SplitResult[1]) \o split_sentences(SplitResult[2])
                        = sentences
            ELSE Len(words) >= 4 =>
                 /\ Len(SplitResult) = 2
                 /\ SplitResult[1] # <<>>
                 /\ SplitResult[2] # <<>>
                 /\ Split(SplitResult[1]) = SubSeq(words, 1, Len(words) \div 2)
                 /\ Split(SplitResult[2]) = SubSeq(words, Len(words) \div 2 + 1, Len(words))
                 /\ Split(SplitResult[1]) \o Split(SplitResult[2]) = words))

\* A document of three sentences and five words has been split: the
\* sentences decide and the first chunk holds one sentence.
C27_Witness ==
    /\ pc = "done"
    /\ result.call = "split"
    /\ Len(documents[1]) > 50
    /\ Len(split_sentences(documents[1])) = 3
    /\ Len(Split(documents[1])) >= 4
    /\ Len(SplitResult) = 2
    /\ Len(split_sentences(SplitResult[1])) = 1

\* A document of one sentence and four words has been split by words.
C27_WitnessWords ==
    /\ pc = "done"
    /\ result.call = "split"
    /\ Len(documents[1]) > 50
    /\ Len(split_sentences(documents[1])) = 1
    /\ Len(Split(documents[1])) = 5
    /\ Len(SplitResult) = 2
    /\ Len(Split(SplitResult[1])) = 2

\* ---------------------------------------------------------------------
\* C21. Two training runs share no mutable state: when the fit calls of
\* two threads on distinct instances are interleaved step by step, each
\* run ends with the topic_assignments and counts it ends with when it
\* executes alone from the same seed.
\* Refuted: both calls draw from the module-level generator, so the draws
\* of the other thread shift the draws a run receives.
ThreadA == IF Running = "A" THEN Frame("A") ELSE waiting

C21_InterleavedRunEqualsRunAlone ==
    (ThreadA.pc = "done" /\ ThreadA.run = 2) =>
        /\ ThreadA.lda.topic_assignments = first_run.topic_assignments
        /\ ThreadA.lda.doc_topic_counts = first_run.doc_topic_counts
        /\ ThreadA.lda.topic_word_counts = first_run.topic_word_counts
        /\ ThreadA.lda.topic_counts = first_run.topic_counts

====
